---- MODULE Spec2Model ----
(***************************************************************************)
(* The todo-microservices backends and gateway as a state machine.         *)
(*                                                                         *)
(* Each Domain Service keeps one MongoDB collection; a collection is a     *)
(* function from the ObjectIDs it holds to documents.  A caller (an RPC    *)
(* client or the gateway acting for an HTTP client) issues one call at a   *)
(* time; calls of different callers interleave at the granularity of one   *)
(* store round trip, which is the only atomic unit the code relies on.     *)
(* The variable last holds the call that completed in the step leading to  *)
(* the current state (NoCall when that step completed none): its request,  *)
(* the error or response the service returned, the store operations it     *)
(* issued, and the HTTP status and payload the gateway handler of that     *)
(* operation writes for this outcome.  The services share no state, so a   *)
(* behaviour exercises one of them, chosen by svc.                         *)
(***************************************************************************)
EXTENDS Integers, Sequences, FiniteSets, TLC

VARIABLES
    svc,        \* the Domain Service this behaviour exercises
    tasks,      \* the tasks collection: ObjectID -> Task document
    taskSeq,    \* ObjectIDs assigned so far in the tasks collection
    clock,      \* wall clock, in seconds
    call,       \* per caller, the call in flight (Idle when none)
    last,       \* the call completed by the latest step
    clients,    \* the domains whose client the gateway registry holds
    users,      \* the users collection: ObjectID -> User document
    userSeq,    \* ObjectIDs assigned so far in the users collection
    notifications,   \* the notifications collection
    notificationSeq, \* ObjectIDs assigned so far in it
    events,     \* the events collection of the analytics service
    eventSeq,   \* ObjectIDs assigned so far in it
    gateway,    \* the gateway process: "starting", "serving" or "exited"
    faults,     \* whether backends and stores can fail in this behaviour
    http        \* per caller, the HTTP exchange the gateway is handling

vars == <<svc, clients, gateway, faults, tasks, taskSeq, users, userSeq, notifications,
         notificationSeq, events, eventSeq, clock, call, last, http>>

\* what no Domain Service can touch
env == <<svc, clients, gateway, faults>>

\* what the task service cannot touch, and what the user service cannot
notTask == <<users, userSeq, notifications, notificationSeq, events, eventSeq>>

notUser == <<tasks, taskSeq, notifications, notificationSeq, events, eventSeq>>

\* what the notification service cannot touch
notNotification == <<tasks, taskSeq, users, userSeq, events, eventSeq>>

\* what the analytics service cannot write: it reads the tasks collection
notAnalytics == <<tasks, taskSeq, users, userSeq, notifications, notificationSeq>>

(* ------------------------------ bounds -------------------------------- *)

\* documents ever inserted into one collection
MaxOid == 1
\* seconds the wall clock can advance
MaxClock == 1
\* documents a collection is given while it is listed
MaxListed == 2

\* concurrent callers
Procs == {"c1", "c2"}

(* ---------------------- strings, identifiers, time --------------------- *)

\* Identifier strings are sequences of one-character strings, so that their
\* length and characters can be inspected the way ObjectIDFromHex does.
HexDigits == <<"0", "1", "2", "3", "4", "5", "6", "7", "8", "9",
               "a", "b", "c", "d", "e", "f">>

UpperHexDigits == <<"A", "B", "C", "D", "E", "F">>

\* characters in the hex encoding of a 12-byte ObjectID
HexLen == 24

HexCharValue(c) ==
    IF \E i \in 1..16 : HexDigits[i] = c
    THEN (CHOOSE i \in 1..16 : HexDigits[i] = c) - 1
    ELSE IF \E i \in 1..6 : UpperHexDigits[i] = c
    THEN (CHOOSE i \in 1..6 : UpperHexDigits[i] = c) + 9
    ELSE -1

RECURSIVE HexEncode(_, _)
HexEncode(n, w) ==
    IF w = 0 THEN <<>>
    ELSE Append(HexEncode(n \div 16, w - 1), HexDigits[(n % 16) + 1])

\* the encodings of the ObjectIDs a collection can hold, computed once
HexTable == [o \in 0..(MaxOid + MaxListed + 1) |-> HexEncode(o, HexLen)]

\* primitive.ObjectID.Hex: fixed-width lower-case hex
Hex(oid) == HexTable[oid]

RECURSIVE HexDecode(_)
HexDecode(s) ==
    IF s = <<>> THEN 0
    ELSE 16 * HexDecode(SubSeq(s, 1, Len(s) - 1)) + HexCharValue(s[Len(s)])

ErrInvalidHex == "the provided hex string is not a valid ObjectID"
ErrNoDocuments == "mongo: no documents in result"

\* primitive.ObjectIDFromHex: the string must be exactly 24 hex characters
\* a parser that takes a malformed string for the zero ObjectID:
\* MalformedIdRejected tells it from ParseHex
ParseHexLenient(s) ==
    IF Len(s) # HexLen \/ \E i \in 1..Len(s) : HexCharValue(s[i]) < 0
    THEN [err |-> "", oid |-> 0]
    ELSE [err |-> "", oid |-> HexDecode(s)]

ParseHex(s) ==
    IF Len(s) # HexLen \/ \E i \in 1..Len(s) : HexCharValue(s[i]) < 0
    THEN [err |-> ErrInvalidHex, oid |-> 0]
    ELSE [err |-> "", oid |-> HexDecode(s)]

\* a well-formed identifier of no document, the identifiers a collection can
\* assign, and two malformed ones: the empty string and a 24-character string
\* that is not hex
MalformedIds == {<<>>, <<"g">> \o HexEncode(0, HexLen - 1)}

IdInputs == {Hex(o) : o \in 0..MaxOid} \cup MalformedIds

\* ParseHex of every identifier a caller sends, computed once
ParseTable ==
    [s \in {HexTable[o] : o \in DOMAIN HexTable} \cup MalformedIds |-> ParseHex(s)]

ObjectIDFromHex(s) == ParseTable[s]

\* time.Now().Format(time.RFC3339): a fixed-width digit string, so that the
\* byte-wise order of two formatted times is their order in time.  The empty
\* string is <<>>.
RFC3339(t) == <<t \div 10, t % 10>>

(* ------------------------- the document store -------------------------- *)

\* collection.InsertOne with _id omitted: the driver assigns a fresh ObjectID
InsertOne(coll, oid, doc) ==
    [o \in DOMAIN coll \cup {oid} |-> IF o = oid THEN doc ELSE coll[o]]

\* collection.FindOne({_id: oid}).Decode
FindOne(coll, oid) ==
    IF oid \in DOMAIN coll
    THEN [err |-> "", doc |-> coll[oid]]
    ELSE [err |-> ErrNoDocuments, doc |-> [none |-> TRUE]]

\* an UpdateOne with the upsert option, which inserts the $set document when
\* nothing matches: UpdateNotFound tells it from UpdateOne
UpdateOneUpsert(coll, oid, set) ==
    IF oid \in DOMAIN coll
    THEN [coll EXCEPT ![oid] =
            [f \in DOMAIN coll[oid] |->
                IF f \in DOMAIN set THEN set[f] ELSE coll[oid][f]]]
    ELSE InsertOne(coll, oid, set)

\* collection.UpdateOne({_id: oid}, {$set: set}): no upsert, no error when
\* nothing matches
UpdateOne(coll, oid, set) ==
    IF oid \in DOMAIN coll
    THEN [coll EXCEPT ![oid] =
            [f \in DOMAIN coll[oid] |->
                IF f \in DOMAIN set THEN set[f] ELSE coll[oid][f]]]
    ELSE coll

\* collection.DeleteOne({_id: oid}): no error when nothing matches
\* a DeleteOne that removes nothing: TaskLifecycle tells it from DeleteOne
DeleteOneKeeps(coll, oid) == coll

DeleteOne(coll, oid) == [o \in DOMAIN coll \ {oid} |-> coll[o]]

\* the ObjectIDs of the documents that match an equality filter
Matching(coll, filter) ==
    {o \in DOMAIN coll : \A f \in DOMAIN filter : coll[o][f] = filter[f]}

\* a set of ObjectIDs in ascending order: the natural (insertion) order of a
\* collection whose documents are never moved
RECURSIVE Ascending(_)
Ascending(S) ==
    IF S = {} THEN <<>>
    ELSE LET m == CHOOSE x \in S : \A y \in S : x <= y
         IN  <<m>> \o Ascending(S \ {m})

\* collection.FindOne(filter).Decode: the first match in natural order
FindOneWhere(coll, filter) ==
    LET m == Ascending(Matching(coll, filter))
    IN  IF m = <<>>
        THEN [err |-> ErrNoDocuments, oid |-> 0, doc |-> [none |-> TRUE]]
        ELSE [err |-> "", oid |-> m[1], doc |-> coll[m[1]]]

ErrNegativeSkip == "BSON field 'skip' value must be >= 0"

\* byte k of the two's complement form of an int32
Int32Byte(n, k) == (n \div (256 ^ k)) % 256

\* the product of two int32 values in Go: the low 32 bits of the product,
\* signed, computed byte by byte
MulInt32(a, b) ==
    LET term(k, i) == IF i <= k THEN Int32Byte(a, i) * Int32Byte(b, k - i) ELSE 0
        c(k) == term(k, 0) + term(k, 1) + term(k, 2) + term(k, 3)
        t0 == c(0)
        t1 == c(1) + (t0 \div 256)
        t2 == c(2) + (t1 \div 256)
        t3 == c(3) + (t2 \div 256)
        top == t3 % 256
    IN  (IF top >= 128 THEN top - 256 ELSE top) * 16777216
          + (t2 % 256) * 65536 + (t1 % 256) * 256 + (t0 % 256)

\* collection.Find(filter, {limit, skip}) drained through the cursor: a limit
\* of 0 means no limit, a negative limit asks for a single batch of -limit
\* documents, a negative skip is refused by the server
Find(coll, filter, limit, skip) ==
    LET all == Ascending(Matching(coll, filter))
        lim == IF limit < 0 THEN -limit ELSE limit
        upto == IF lim = 0 \/ skip + lim > Len(all) THEN Len(all) ELSE skip + lim
    IN  IF skip < 0
        THEN [err |-> ErrNegativeSkip, oids |-> <<>>]
        ELSE [err |-> "", oids |-> SubSeq(all, skip + 1, upto)]

\* the byte-wise order of two strings, as the store compares them
StringLess(a, b) ==
    \/ Len(a) < Len(b) /\ SubSeq(b, 1, Len(a)) = a
    \/ \E i \in 1..Len(a) :
          /\ i <= Len(b)
          /\ SubSeq(a, 1, i - 1) = SubSeq(b, 1, i - 1)
          /\ a[i] < b[i]

\* the orders a sort on field, descending, can put the documents S in: the
\* order of two documents with equal keys is not determined
Descending(coll, S, field) ==
    {s \in [1..Cardinality(S) -> S] :
        /\ \A i, j \in DOMAIN s : i # j => s[i] # s[j]
        /\ \A i, j \in DOMAIN s :
              i < j => ~StringLess(coll[s[i]][field], coll[s[j]][field])}

\* the results collection.Find(filter, {limit, skip, sort: {field: -1}}) can
\* give, drained through the cursor
FindSorted(coll, filter, field, limit, skip) ==
    LET lim == IF limit < 0 THEN -limit ELSE limit
    IN  IF skip < 0
        THEN {[err |-> ErrNegativeSkip, oids |-> <<>>]}
        ELSE {[err |-> "",
               oids |-> SubSeq(all, skip + 1,
                           IF lim = 0 \/ skip + lim > Len(all)
                           THEN Len(all) ELSE skip + lim)] :
                 all \in Descending(coll, Matching(coll, filter), field)}

\* collection.CountDocuments(filter)
CountDocuments(coll, filter) == Cardinality(Matching(coll, filter))

(* ------------------------------ calls ---------------------------------- *)

Idle == [op |-> "idle"]

NoResp == [none |-> TRUE]

NoPayload == [none |-> TRUE]

\* no call completed in the step that led here
NoCall ==
    [op |-> "none", req |-> [none |-> TRUE], called |-> FALSE, err |-> "",
     resp |-> NoResp, storeOps |-> <<>>, status |-> 0, payload |-> NoPayload,
     clean |-> TRUE]


(* ------------------------------ gateway -------------------------------- *)

\* what err.Error() yields at the gateway for an error a service returned:
\* gRPC carries a plain Go error as status Unknown with the text as description
GrpcError(err) == "rpc error: code = Unknown desc = " \o err

\* respondWithError: the payload is a one-field object
ErrorPayload(message) == [error |-> message]

SuccessStatus(op) ==
    IF op \in {"CreateTask", "CreateUser", "SendNotification", "TrackEvent"}
    THEN 201 ELSE 200

\* a handler tail that tells the client why authentication failed:
\* AuthFailureUniform tells it from RespondBackend
RespondBackendVerbose(op, err, resp) ==
    IF err # ""
    THEN IF op = "AuthenticateUser"
         THEN [status |-> 401, payload |-> ErrorPayload(GrpcError(err))]
         ELSE [status |-> 500, payload |-> ErrorPayload(GrpcError(err))]
    ELSE [status |-> SuccessStatus(op), payload |-> resp]

\* the error branch of every handler, given err.Error() of the failed call
RespondRpcError(op, message) ==
    IF op = "AuthenticateUser"
    THEN [status |-> 401, payload |-> ErrorPayload("Authentication failed")]
    ELSE [status |-> 500, payload |-> ErrorPayload(message)]

\* the tail of every handler: what is written once the backend call returned
RespondBackend(op, err, resp) ==
    IF err # ""
    THEN RespondRpcError(op, GrpcError(err))
    ELSE [status |-> SuccessStatus(op), payload |-> resp]

\* the reply of the previous step has been handed to its caller
Quiet == last = NoCall

\* the record of a completed call.  clean: no other caller wrote the document
\* the call addressed between the call's own write and its return.
Done(op, req, err, resp, ops, clean) ==
    LET h == RespondBackend(op, err, resp)
    IN  [op |-> op, req |-> req, called |-> TRUE, err |-> err,
         resp |-> IF err = "" THEN resp ELSE NoResp, storeOps |-> ops,
         status |-> h.status, payload |-> h.payload, clean |-> clean]

\* the record of an HTTP request the gateway answered without calling a backend
Rejected(op, status, message) ==
    [op |-> op, req |-> [none |-> TRUE], called |-> FALSE, err |-> "",
     resp |-> NoResp, storeOps |-> <<>>, status |-> status,
     payload |-> ErrorPayload(message), clean |-> TRUE]

\* what the gRPC client returns when the context deadline passes, and when
\* the backend cannot be reached
ErrDeadlineExceeded ==
    "rpc error: code = DeadlineExceeded desc = context deadline exceeded"

ErrUnavailable ==
    "rpc error: code = Unavailable desc = connection error: connection refused"

\* an error of the store driver
ErrStore == "server selection error: server selection timeout"

\* the record of a call the gRPC client gave up: no reply of the service
Aborted(op, req, message) ==
    LET h == RespondRpcError(op, message)
    IN  [op |-> op, req |-> req, called |-> TRUE, err |-> message,
         resp |-> NoResp, storeOps |-> <<>>, status |-> h.status,
         payload |-> h.payload, clean |-> TRUE]

\* a call on the wire that no backend is serving
Hung(op, req) ==
    [op |-> "hung", rpc |-> op, req |-> req, oid |-> 0, dirty |-> FALSE]

\* no HTTP exchange: the caller is not an HTTP client, or its handler returned
NoExchange == [state |-> "none"]

\* a request without a body
NoBody == [none |-> TRUE]

\* the exchange of a request after the handler's first step, which left the
\* record l in last: answered when the step completed or refused the call,
\* dispatched and waiting for the backend otherwise
Exchange(route, path, input, l) ==
    [route |-> route, path |-> path, input |-> input,
     state |-> IF l = NoCall THEN "Dispatched"
               ELSE IF l.status < 400 THEN "Succeeded" ELSE "Failed",
     calls |-> IF l = NoCall \/ l.called THEN 1 ELSE 0,
     responses |-> IF l = NoCall THEN 0 ELSE 1,
     status |-> l.status, payload |-> l.payload]

\* the handler tail: the backend call returned the record l
Answered(h, l) ==
    IF h = NoExchange THEN h
    ELSE [h EXCEPT !.state = IF l.status < 400 THEN "Succeeded" ELSE "Failed",
                   !.responses = @ + 1,
                   !.status = l.status, !.payload = l.payload]

\* a call in flight that reads the whole collection carries this as its oid
WholeCollection == -1

\* a write to document oid by another caller marks as overtaken the call in
\* flight on that document and the call in flight on the whole collection
Overtake(c, oid) ==
    IF c.op # "idle" /\ c.oid \in {oid, WholeCollection}
    THEN [c EXCEPT !.dirty = TRUE] ELSE c

(* ---------------------------- task service ----------------------------- *)

\* CreateTask: the Task value that is inserted
\* a new document whose updated_at is left unset: CreateTaskDefaults tells it
\* from NewTask
NewTaskStale(req, now) ==
    [title |-> req.title, description |-> req.description,
     user_id |-> req.user_id, completed |-> FALSE, due_date |-> req.due_date,
     created_at |-> now, updated_at |-> <<>>]

NewTask(req, now) ==
    [title |-> req.title, description |-> req.description,
     user_id |-> req.user_id, completed |-> FALSE, due_date |-> req.due_date,
     created_at |-> now, updated_at |-> now]

\* the pb.Task built from a stored document
TaskToPb(oid, task) ==
    [id |-> Hex(oid), title |-> task.title, description |-> task.description,
     user_id |-> task.user_id, completed |-> task.completed,
     due_date |-> task.due_date, created_at |-> task.created_at,
     updated_at |-> task.updated_at]

\* a $set document that leaves the title out: UpdateThenGet tells it from
\* UpdateTaskSet
UpdateTaskSetNoTitle(req, now) ==
    [description |-> req.description, completed |-> req.completed,
     due_date |-> req.due_date, updated_at |-> now]

\* a $set document that stamps created_at as well: TimestampsOrdered tells
\* it from UpdateTaskSet
UpdateTaskSetStampsBoth(req, now) ==
    [title |-> req.title, description |-> req.description,
     completed |-> req.completed, due_date |-> req.due_date,
     created_at |-> now, updated_at |-> now]

\* a $set document that keeps the stored title when the request has none:
\* UpdateReplacesFields tells it from UpdateTaskSet
UpdateTaskSetKeepsTitle(req, now) ==
    IF req.title = ""
    THEN [description |-> req.description, completed |-> req.completed,
          due_date |-> req.due_date, updated_at |-> now]
    ELSE [title |-> req.title, description |-> req.description,
          completed |-> req.completed, due_date |-> req.due_date,
          updated_at |-> now]

\* UpdateTask: the $set document
UpdateTaskSet(req, now) ==
    [title |-> req.title, description |-> req.description,
     completed |-> req.completed, due_date |-> req.due_date,
     updated_at |-> now]

CreateTask(p, req) ==
    /\ Quiet /\ call[p] = Idle
    /\ LET task == NewTask(req, RFC3339(clock))
           oid == taskSeq + 1
       IN  /\ tasks' = InsertOne(tasks, oid, task)
           /\ taskSeq' = oid
           /\ call' = [q \in Procs |-> Overtake(call[q], oid)]
           /\ last' = Done("CreateTask", req, "",
                           [task |-> TaskToPb(oid, task)], <<"InsertOne">>, TRUE)
    /\ UNCHANGED <<env, notTask, clock>>

\* what GetTask returns on a given collection
GetTaskReply(coll, req) ==
    LET id == ObjectIDFromHex(req.id)
        found == FindOne(coll, id.oid)
    IN  IF id.err # ""
        THEN [err |-> id.err, resp |-> NoResp, ops |-> <<>>]
        ELSE IF found.err # ""
        THEN [err |-> found.err, resp |-> NoResp, ops |-> <<"FindOne">>]
        ELSE [err |-> "", resp |-> [task |-> TaskToPb(id.oid, found.doc)],
              ops |-> <<"FindOne">>]

GetTask(p, req) ==
    /\ Quiet /\ call[p] = Idle
    /\ LET r == GetTaskReply(tasks, req)
       IN  last' = Done("GetTask", req, r.err, r.resp, r.ops, TRUE)
    /\ UNCHANGED <<env, notTask, tasks, taskSeq, clock, call>>

\* UpdateTask up to and including UpdateOne
UpdateTask(p, req) ==
    /\ Quiet /\ call[p] = Idle
    /\ LET id == ObjectIDFromHex(req.id)
       IN  IF id.err # ""
           THEN /\ last' = Done("UpdateTask", req, id.err, NoResp, <<>>, TRUE)
                /\ UNCHANGED <<tasks, call>>
           ELSE /\ tasks' = UpdateOne(tasks, id.oid,
                                      UpdateTaskSet(req, RFC3339(clock)))
                /\ call' = [q \in Procs |->
                             IF q = p
                             THEN [op |-> "UpdateTask", req |-> req,
                                   oid |-> id.oid, dirty |-> FALSE]
                             ELSE Overtake(call[q], id.oid)]
                /\ UNCHANGED last
    /\ UNCHANGED <<env, notTask, taskSeq, clock>>

\* UpdateTask from the read-back FindOne to the return
UpdateTaskReadBack(p) ==
    /\ Quiet /\ call[p].op = "UpdateTask"
    /\ LET c == call[p]
           found == FindOne(tasks, c.oid)
       IN  last' =
             IF found.err # ""
             THEN Done("UpdateTask", c.req, found.err, NoResp,
                       <<"UpdateOne", "FindOne">>, ~c.dirty)
             ELSE Done("UpdateTask", c.req, "",
                       [task |-> TaskToPb(c.oid, found.doc)],
                       <<"UpdateOne", "FindOne">>, ~c.dirty)
    /\ call' = [call EXCEPT ![p] = Idle]
    /\ http' = [http EXCEPT ![p] = Answered(@, last')]
    /\ UNCHANGED <<env, notTask, tasks, taskSeq, clock>>

\* a DeleteTask that reports a missing document: DeleteIdempotent tells it
\* from DeleteTaskReply
DeleteTaskReplyStrict(coll, req) ==
    LET id == ObjectIDFromHex(req.id)
    IN  IF id.err # ""
        THEN [err |-> id.err, resp |-> NoResp, ops |-> <<>>, coll |-> coll]
        ELSE IF id.oid \notin DOMAIN coll
        THEN [err |-> ErrNoDocuments, resp |-> NoResp, ops |-> <<"DeleteOne">>,
              coll |-> coll]
        ELSE [err |-> "", resp |-> [success |-> TRUE], ops |-> <<"DeleteOne">>,
              coll |-> DeleteOne(coll, id.oid)]

\* what DeleteTask returns on a given collection, and the collection it leaves
DeleteTaskReply(coll, req) ==
    LET id == ObjectIDFromHex(req.id)
    IN  IF id.err # ""
        THEN [err |-> id.err, resp |-> NoResp, ops |-> <<>>, coll |-> coll]
        ELSE [err |-> "", resp |-> [success |-> TRUE], ops |-> <<"DeleteOne">>,
              coll |-> DeleteOne(coll, id.oid)]

DeleteTask(p, req) ==
    /\ Quiet /\ call[p] = Idle
    /\ LET r == DeleteTaskReply(tasks, req)
       IN  /\ tasks' = r.coll
           /\ call' = [q \in Procs |->
                        IF r.ops = <<>> THEN call[q]
                        ELSE Overtake(call[q], ObjectIDFromHex(req.id).oid)]
           /\ last' = Done("DeleteTask", req, r.err, r.resp, r.ops, TRUE)
    /\ UNCHANGED <<env, notTask, taskSeq, clock>>

\* ListTasks: the filter document
\* a filter that takes an unset completed flag for "not completed":
\* ListFiltered tells it from ListTasksFilter
ListTasksFilterStrict(req) ==
    [user_id |-> req.user_id, completed |-> req.completed]

ListTasksFilter(req) ==
    IF req.completed
    THEN [user_id |-> req.user_id, completed |-> TRUE]
    ELSE [user_id |-> req.user_id]

\* ListTasks up to the end of the cursor loop
ListTasks(p, req) ==
    /\ Quiet /\ call[p] = Idle
    /\ LET found == Find(tasks, ListTasksFilter(req), req.limit,
                         MulInt32(req.page, req.limit))
       IN  IF found.err # ""
           THEN /\ last' = Done("ListTasks", req, found.err, NoResp,
                                <<"Find">>, TRUE)
                /\ UNCHANGED call
           ELSE /\ call' = [call EXCEPT ![p] =
                              [op |-> "ListTasks", req |-> req, oid |-> WholeCollection,
                               dirty |-> FALSE,
                               page |-> [i \in 1..Len(found.oids) |->
                                   TaskToPb(found.oids[i], tasks[found.oids[i]])]]]
                /\ UNCHANGED last
    /\ UNCHANGED <<env, notTask, tasks, taskSeq, clock>>

\* a response whose total is the length of the page: ListTotal tells it from
\* ListTasksResponse
ListTasksResponsePageTotal(page, count) == [tasks |-> page, total |-> Len(page)]

\* the pb.ListTasksResponse
ListTasksResponse(page, count) == [tasks |-> page, total |-> count]

\* ListTasks from CountDocuments to the return
ListTasksCount(p) ==
    /\ Quiet /\ call[p].op = "ListTasks"
    /\ LET c == call[p]
       IN  last' = Done("ListTasks", c.req, "",
                        ListTasksResponse(c.page,
                            CountDocuments(tasks, ListTasksFilter(c.req))),
                        <<"Find", "CountDocuments">>, ~c.dirty)
    /\ call' = [call EXCEPT ![p] = Idle]
    /\ http' = [http EXCEPT ![p] = Answered(@, last')]
    /\ UNCHANGED <<env, notTask, tasks, taskSeq, clock>>

(* ---------------------------- user service ----------------------------- *)

\* the salts bcrypt can draw
Salts == {"s1", "s2"}

ErrMismatchedHashAndPassword ==
    "crypto/bcrypt: hashedPassword is not the hash of the given password"

\* bcrypt.GenerateFromPassword(password, DefaultCost) with the salt it drew:
\* version, cost and salt in clear, then the digest, which stands here as a
\* one-to-one image of salt and password
GenerateFromPassword(password, salt) ==
    "$2a$10$" \o salt \o "$digest(" \o password \o ")"

\* bcrypt.CompareHashAndPassword: hashes the password again with the salt read
\* from hashedPassword and compares; nil ("") when they agree
CompareHashAndPassword(hashedPassword, password) ==
    IF \E salt \in Salts : hashedPassword = GenerateFromPassword(password, salt)
    THEN "" ELSE ErrMismatchedHashAndPassword

\* CreateUser: the User value that is inserted
NewUser(req, hashedPassword, now) ==
    [username |-> req.username, email |-> req.email,
     password |-> hashedPassword, created_at |-> now, updated_at |-> now]

\* a pb.User that carries the stored password: UserResponseFields tells it
\* from UserToPb
UserToPbWithPassword(oid, user) ==
    [id |-> Hex(oid), username |-> user.username, email |-> user.email,
     password |-> user.password,
     created_at |-> user.created_at, updated_at |-> user.updated_at]

\* the pb.User built from a stored document
UserToPb(oid, user) ==
    [id |-> Hex(oid), username |-> user.username, email |-> user.email,
     created_at |-> user.created_at, updated_at |-> user.updated_at]

\* a $set document that stores the password as it was sent:
\* StoredPasswordsHashed tells it from UpdateUserSet
UpdateUserSetPlain(req, hashedPassword, now) ==
    IF req.password # ""
    THEN [username |-> req.username, email |-> req.email, updated_at |-> now,
          password |-> req.password]
    ELSE [username |-> req.username, email |-> req.email, updated_at |-> now]

\* a $set document that hashes the password of the request even when it is
\* empty: UpdatePasswordOnlyIfSent tells it from UpdateUserSet
UpdateUserSetRehash(req, hashedPassword, now) ==
    [username |-> req.username, email |-> req.email, updated_at |-> now,
     password |-> hashedPassword]

\* UpdateUser: the $set document
UpdateUserSet(req, hashedPassword, now) ==
    IF req.password # ""
    THEN [username |-> req.username, email |-> req.email, updated_at |-> now,
          password |-> hashedPassword]
    ELSE [username |-> req.username, email |-> req.email, updated_at |-> now]

CreateUser(p, req) ==
    /\ Quiet /\ call[p] = Idle
    /\ \E salt \in Salts :
         LET user == NewUser(req, GenerateFromPassword(req.password, salt),
                             RFC3339(clock))
             oid == userSeq + 1
         IN  /\ users' = InsertOne(users, oid, user)
             /\ userSeq' = oid
             /\ call' = [q \in Procs |-> Overtake(call[q], oid)]
             /\ last' = Done("CreateUser", req, "",
                             [user |-> UserToPb(oid, user)], <<"InsertOne">>, TRUE)
    /\ UNCHANGED <<env, notUser, clock>>

\* what GetUser returns on a given collection
GetUserReply(coll, req) ==
    LET id == ObjectIDFromHex(req.id)
        found == FindOne(coll, id.oid)
    IN  IF id.err # ""
        THEN [err |-> id.err, resp |-> NoResp, ops |-> <<>>]
        ELSE IF found.err # ""
        THEN [err |-> found.err, resp |-> NoResp, ops |-> <<"FindOne">>]
        ELSE [err |-> "", resp |-> [user |-> UserToPb(id.oid, found.doc)],
              ops |-> <<"FindOne">>]

GetUser(p, req) ==
    /\ Quiet /\ call[p] = Idle
    /\ LET r == GetUserReply(users, req)
       IN  last' = Done("GetUser", req, r.err, r.resp, r.ops, TRUE)
    /\ UNCHANGED <<env, notUser, users, userSeq, clock, call>>

\* UpdateUser up to and including UpdateOne
UpdateUser(p, req) ==
    /\ Quiet /\ call[p] = Idle
    /\ LET id == ObjectIDFromHex(req.id)
       IN  IF id.err # ""
           THEN /\ last' = Done("UpdateUser", req, id.err, NoResp, <<>>, TRUE)
                /\ UNCHANGED <<users, call>>
           ELSE \E salt \in Salts :
                /\ users' = UpdateOne(users, id.oid,
                     UpdateUserSet(req, GenerateFromPassword(req.password, salt),
                                   RFC3339(clock)))
                /\ call' = [q \in Procs |->
                             IF q = p
                             THEN [op |-> "UpdateUser", req |-> req,
                                   oid |-> id.oid, dirty |-> FALSE]
                             ELSE Overtake(call[q], id.oid)]
                /\ UNCHANGED last
    /\ UNCHANGED <<env, notUser, userSeq, clock>>

\* UpdateUser from the read-back FindOne to the return
UpdateUserReadBack(p) ==
    /\ Quiet /\ call[p].op = "UpdateUser"
    /\ LET c == call[p]
           found == FindOne(users, c.oid)
       IN  last' =
             IF found.err # ""
             THEN Done("UpdateUser", c.req, found.err, NoResp,
                       <<"UpdateOne", "FindOne">>, ~c.dirty)
             ELSE Done("UpdateUser", c.req, "",
                       [user |-> UserToPb(c.oid, found.doc)],
                       <<"UpdateOne", "FindOne">>, ~c.dirty)
    /\ call' = [call EXCEPT ![p] = Idle]
    /\ http' = [http EXCEPT ![p] = Answered(@, last')]
    /\ UNCHANGED <<env, notUser, users, userSeq, clock>>

\* what DeleteUser returns on a given collection, and the collection it leaves
DeleteUserReply(coll, req) ==
    LET id == ObjectIDFromHex(req.id)
    IN  IF id.err # ""
        THEN [err |-> id.err, resp |-> NoResp, ops |-> <<>>, coll |-> coll]
        ELSE [err |-> "", resp |-> [success |-> TRUE], ops |-> <<"DeleteOne">>,
              coll |-> DeleteOne(coll, id.oid)]

DeleteUser(p, req) ==
    /\ Quiet /\ call[p] = Idle
    /\ LET r == DeleteUserReply(users, req)
       IN  /\ users' = r.coll
           /\ call' = [q \in Procs |->
                        IF r.ops = <<>> THEN call[q]
                        ELSE Overtake(call[q], ObjectIDFromHex(req.id).oid)]
           /\ last' = Done("DeleteUser", req, r.err, r.resp, r.ops, TRUE)
    /\ UNCHANGED <<env, notUser, userSeq, clock>>

\* what AuthenticateUser returns on a given collection
AuthenticateUserReply(coll, req) ==
    LET found == FindOneWhere(coll, [email |-> req.email])
        cmp == CompareHashAndPassword(found.doc.password, req.password)
    IN  IF found.err # ""
        THEN [err |-> found.err, resp |-> NoResp]
        ELSE IF cmp # ""
        THEN [err |-> cmp, resp |-> NoResp]
        ELSE [err |-> "",
              resp |-> [token |-> "sample-jwt-token",
                        user |-> UserToPb(found.oid, found.doc)]]

AuthenticateUser(p, req) ==
    /\ Quiet /\ call[p] = Idle
    /\ LET r == AuthenticateUserReply(users, req)
       IN  last' = Done("AuthenticateUser", req, r.err, r.resp, <<"FindOne">>, TRUE)
    /\ UNCHANGED <<env, notUser, users, userSeq, clock, call>>

(* ------------------------ notification service ------------------------ *)

\* SendNotification: the document handed to InsertOne
NewNotification(req, now) ==
    [user_id |-> req.user_id, message |-> req.message, read |-> FALSE,
     created_at |-> now]

\* the pb.Notification built from a stored document
NotificationToPb(oid, n) ==
    [id |-> Hex(oid), user_id |-> n.user_id, message |-> n.message,
     read |-> n.read, created_at |-> n.created_at]

SendNotification(p, req) ==
    /\ Quiet /\ call[p] = Idle
    /\ LET n == NewNotification(req, RFC3339(clock))
           oid == notificationSeq + 1
       IN  /\ notifications' = InsertOne(notifications, oid, n)
           /\ notificationSeq' = oid
           /\ call' = [q \in Procs |-> Overtake(call[q], oid)]
           /\ last' = Done("SendNotification", req, "",
                           [notification |-> NotificationToPb(oid, n)],
                           <<"InsertOne">>, TRUE)
    /\ UNCHANGED <<env, notNotification, clock>>

GetNotificationsFilter(req) ==
    IF req.unread_only
    THEN [user_id |-> req.user_id, read |-> FALSE]
    ELSE [user_id |-> req.user_id]

\* GetNotifications up to the end of the cursor loop
GetNotifications(p, req) ==
    /\ Quiet /\ call[p] = Idle
    /\ \E found \in FindSorted(notifications, GetNotificationsFilter(req),
                               "created_at", req.limit,
                               MulInt32(req.page, req.limit)) :
          IF found.err # ""
          THEN /\ last' = Done("GetNotifications", req, found.err, NoResp,
                               <<"Find">>, TRUE)
               /\ UNCHANGED call
          ELSE /\ call' = [call EXCEPT ![p] =
                             [op |-> "GetNotifications", req |-> req,
                              oid |-> WholeCollection, dirty |-> FALSE,
                              page |-> [i \in 1..Len(found.oids) |->
                                  NotificationToPb(found.oids[i],
                                                   notifications[found.oids[i]])]]]
               /\ UNCHANGED last
    /\ UNCHANGED <<env, notNotification, notifications, notificationSeq, clock>>

\* the pb.GetNotificationsResponse
GetNotificationsResponse(page, count) ==
    [notifications |-> page, total |-> count]

\* GetNotifications from CountDocuments to the return
GetNotificationsCount(p) ==
    /\ Quiet /\ call[p].op = "GetNotifications"
    /\ LET c == call[p]
       IN  last' = Done("GetNotifications", c.req, "",
                        GetNotificationsResponse(c.page,
                            CountDocuments(notifications,
                                           GetNotificationsFilter(c.req))),
                        <<"Find", "CountDocuments">>, ~c.dirty)
    /\ call' = [call EXCEPT ![p] = Idle]
    /\ http' = [http EXCEPT ![p] = Answered(@, last')]
    /\ UNCHANGED <<env, notNotification, notifications, notificationSeq, clock>>

(* -------------------------- analytics service -------------------------- *)

\* TrackEvent: the document handed to InsertOne
NewEvent(req, now) ==
    [user_id |-> req.user_id, event_type |-> req.event_type,
     resource_id |-> req.resource_id, metadata |-> req.metadata,
     created_at |-> now]

\* the pb.Event built from the inserted document
EventToPb(oid, e) ==
    [id |-> Hex(oid), user_id |-> e.user_id, event_type |-> e.event_type,
     resource_id |-> e.resource_id, metadata |-> e.metadata,
     created_at |-> e.created_at]

TrackEvent(p, req) ==
    /\ Quiet /\ call[p] = Idle
    /\ LET e == NewEvent(req, RFC3339(clock))
           oid == eventSeq + 1
       IN  /\ events' = InsertOne(events, oid, e)
           /\ eventSeq' = oid
           /\ last' = Done("TrackEvent", req, "", [event |-> EventToPb(oid, e)],
                           <<"InsertOne">>, TRUE)
    /\ UNCHANGED <<env, notAnalytics, clock, call>>

\* a count query of a statistics call in flight: the count is appended to
\* those the call has taken so far
StatsStep(p, op, taken, filter) ==
    /\ Quiet
    /\ call[p].op = op /\ Len(call[p].counts) = taken
    /\ call' = [call EXCEPT ![p].counts =
                  Append(@, CountDocuments(tasks, filter))]
    /\ UNCHANGED <<env, notAnalytics, events, eventSeq, clock, last, http>>

\* GetUserStats up to the count of the user's tasks
GetUserStats(p, req) ==
    /\ Quiet /\ call[p] = Idle
    /\ call' = [call EXCEPT ![p] =
                  [op |-> "GetUserStats", req |-> req, oid |-> WholeCollection,
                   dirty |-> FALSE,
                   counts |-> <<CountDocuments(tasks, [user_id |-> req.user_id])>>]]
    /\ UNCHANGED <<env, notAnalytics, events, eventSeq, clock, last>>

\* the count of the user's completed tasks
GetUserStatsCompleted(p) ==
    StatsStep(p, "GetUserStats", 1,
              [user_id |-> call[p].req.user_id, completed |-> TRUE])

\* a pending count that leaves the user out of its filter: StatsConsistent
\* tells it from GetUserStatsPending
GetUserStatsPendingAnyUser(p) ==
    StatsStep(p, "GetUserStats", 2, [completed |-> FALSE])

\* the count of the user's pending tasks
GetUserStatsPending(p) ==
    StatsStep(p, "GetUserStats", 2,
              [user_id |-> call[p].req.user_id, completed |-> FALSE])

\* the pb.GetUserStatsResponse
GetUserStatsResponse(counts, overdue) ==
    [stats |-> [total_tasks |-> counts[1], completed_tasks |-> counts[2],
                pending_tasks |-> counts[3], overdue_tasks |-> overdue]]

\* the count of the user's overdue tasks, due_date $lt now compared as
\* strings, and the return
GetUserStatsOverdue(p) ==
    /\ Quiet
    /\ call[p].op = "GetUserStats" /\ Len(call[p].counts) = 3
    /\ LET c == call[p]
           overdue == {oid \in Matching(tasks, [user_id |-> c.req.user_id,
                                                completed |-> FALSE]) :
                          StringLess(tasks[oid].due_date, RFC3339(clock))}
       IN  last' = Done("GetUserStats", c.req, "",
                        GetUserStatsResponse(c.counts, Cardinality(overdue)),
                        <<"CountDocuments", "CountDocuments", "CountDocuments",
                          "CountDocuments">>, ~c.dirty)
    /\ call' = [call EXCEPT ![p] = Idle]
    /\ http' = [http EXCEPT ![p] = Answered(@, last')]
    /\ UNCHANGED <<env, notAnalytics, events, eventSeq, clock>>

\* GetTaskStats up to the count of all tasks
GetTaskStats(p, req) ==
    /\ Quiet /\ call[p] = Idle
    /\ call' = [call EXCEPT ![p] =
                  [op |-> "GetTaskStats", req |-> req, oid |-> WholeCollection,
                   dirty |-> FALSE,
                   counts |-> <<CountDocuments(tasks, <<>>)>>]]
    /\ UNCHANGED <<env, notAnalytics, events, eventSeq, clock, last>>

\* the count of the completed tasks
GetTaskStatsCompleted(p) ==
    StatsStep(p, "GetTaskStats", 1, [completed |-> TRUE])

\* a response that takes the number of tasks for the number of their owners:
\* TaskStatsCounts tells it from GetTaskStatsResponse
GetTaskStatsResponseOwners(counts, groups) ==
    [stats |-> [total_tasks |-> counts[1], completed_tasks |-> counts[2],
                active_users |-> counts[1]]]

\* the pb.GetTaskStatsResponse; groups are the results of the $group stage,
\* which $count counts, and no result at all means 0
GetTaskStatsResponse(counts, groups) ==
    [stats |-> [total_tasks |-> counts[1], completed_tasks |-> counts[2],
                active_users |-> Cardinality(groups)]]

\* the aggregation that groups the tasks by user_id, and the return
GetTaskStatsActiveUsers(p) ==
    /\ Quiet
    /\ call[p].op = "GetTaskStats" /\ Len(call[p].counts) = 2
    /\ LET c == call[p]
           groups == {tasks[oid].user_id : oid \in DOMAIN tasks}
       IN  last' = Done("GetTaskStats", c.req, "",
                        GetTaskStatsResponse(c.counts, groups),
                        <<"CountDocuments", "CountDocuments", "Aggregate">>,
                        ~c.dirty)
    /\ call' = [call EXCEPT ![p] = Idle]
    /\ http' = [http EXCEPT ![p] = Answered(@, last')]
    /\ UNCHANGED <<env, notAnalytics, events, eventSeq, clock>>

(* --------------------------- request values ---------------------------- *)

\* the scenario's task, and a request that leaves every optional field out
TaskInputs ==
    {[title |-> "buy milk", description |-> "2 litres", due_date |-> RFC3339(0),
      completed |-> TRUE],
     [title |-> "", description |-> "", due_date |-> <<>>, completed |-> FALSE]}

CreateTaskRequest(x, u) ==
    [title |-> x.title, description |-> x.description, user_id |-> u,
     due_date |-> x.due_date]

UpdateTaskRequest(i, x) ==
    [id |-> i, title |-> x.title, description |-> x.description,
     completed |-> x.completed, due_date |-> x.due_date]

UserInputs ==
    {[username |-> "alice", email |-> "a@x.io", password |-> "pw1"],
     [username |-> "", email |-> "", password |-> ""]}

UpdateUserRequest(i, x) ==
    [id |-> i, username |-> x.username, email |-> x.email,
     password |-> x.password]

AuthRequests ==
    {[email |-> x.email, password |-> y.password] : x \in UserInputs, y \in UserInputs}

(* ------------ direct RPC callers of create/read/update/delete ---------- *)

CrudCreateTask(p) ==
    /\ svc = "task"
    /\ taskSeq < MaxOid
    /\ \E x \in TaskInputs : CreateTask(p, CreateTaskRequest(x, "u1"))
    /\ UNCHANGED http

CrudGetTask(p) ==
    /\ svc = "task" /\ \E i \in IdInputs : GetTask(p, [id |-> i])
    /\ UNCHANGED http

CrudUpdateTask(p) ==
    /\ svc = "task"
    /\ \E i \in IdInputs, x \in TaskInputs :
          UpdateTask(p, UpdateTaskRequest(i, x))
    /\ UNCHANGED http

CrudDeleteTask(p) ==
    /\ svc = "task" /\ \E i \in IdInputs : DeleteTask(p, [id |-> i])
    /\ UNCHANGED http

CrudCreateUser(p) ==
    /\ svc = "user"
    /\ userSeq < MaxOid
    /\ \E x \in UserInputs : CreateUser(p, x)
    /\ UNCHANGED http

CrudGetUser(p) ==
    /\ svc = "user" /\ \E i \in IdInputs : GetUser(p, [id |-> i])
    /\ UNCHANGED http

CrudUpdateUser(p) ==
    /\ svc = "user"
    /\ \E i \in IdInputs, x \in UserInputs :
          UpdateUser(p, UpdateUserRequest(i, x))
    /\ UNCHANGED http

CrudDeleteUser(p) ==
    /\ svc = "user" /\ \E i \in IdInputs : DeleteUser(p, [id |-> i])
    /\ UNCHANGED http

CrudAuthenticateUser(p) ==
    /\ svc = "user" /\ \E req \in AuthRequests : AuthenticateUser(p, req)
    /\ UNCHANGED http

(* -------------------------- gateway handlers --------------------------- *)

\* an HTTP body: text that is no JSON for the request type, or a JSON object
MalformedBody == [malformed |-> TRUE, object |-> <<>>]

JsonBody(object) == [malformed |-> FALSE, object |-> object]

\* json.NewDecoder(r.Body).Decode(&req): a field the object leaves out keeps
\* its zero value, a field the request type lacks is ignored
\* a decoder that reports no error for a body that is no JSON:
\* DecodeFailureRejected tells it from DecodeJSON
DecodeJSONLenient(body, zero) ==
    [err |-> "",
     req |-> [f \in DOMAIN zero |->
                 IF ~body.malformed /\ f \in DOMAIN body.object
                 THEN body.object[f] ELSE zero[f]]]

DecodeJSON(body, zero) ==
    IF body.malformed
    THEN [err |-> "invalid character", req |-> zero]
    ELSE [err |-> "",
          req |-> [f \in DOMAIN zero |->
                      IF f \in DOMAIN body.object THEN body.object[f]
                      ELSE zero[f]]]

\* mux.Vars(r)["id"]: a path segment is never empty
PathIds == IdInputs \ {<<>>}

\* the handler answers without calling the backend
Reject(p, op, status, message) ==
    /\ Quiet /\ call[p] = Idle
    /\ last' = Rejected(op, status, message)
    /\ UNCHANGED <<env, notTask, notUser, clock, call>>

\* the backend call of a handler goes wrong: the backend never answers, it
\* cannot be reached, or the first store operation of the service fails
Fault(p, op, req) ==
    /\ faults
    /\ Quiet /\ call[p] = Idle
    /\ \/ /\ call' = [call EXCEPT ![p] = Hung(op, req)]
          /\ UNCHANGED last
       \/ /\ last' = Aborted(op, req, ErrUnavailable)
          /\ UNCHANGED call
       \/ /\ "id" \in DOMAIN req => req.id \notin MalformedIds
          /\ last' = Done(op, req, ErrStore, NoResp, <<>>, TRUE)
          /\ UNCHANGED call
    /\ UNCHANGED <<env, notTask, tasks, taskSeq, clock>>

\* a gateway that answers the passing of the deadline with a second attempt:
\* RequestLifecycle tells it from Timeout
TimeoutRetry(p) ==
    /\ Quiet
    /\ http[p].state = "Dispatched"
    /\ http[p].calls < 2
    /\ http' = [http EXCEPT ![p].calls = @ + 1]
    /\ UNCHANGED <<env, notTask, tasks, taskSeq, clock, call, last>>

\* context.WithTimeout: the deadline of a dispatched call passes before the
\* backend answered; the gRPC client gives the call up
Timeout(p) ==
    /\ Quiet
    /\ http[p].state = "Dispatched"
    /\ LET c == call[p]
       IN  last' = Aborted(IF c.op = "hung" THEN c.rpc ELSE c.op, c.req,
                           ErrDeadlineExceeded)
    /\ call' = [call EXCEPT ![p] = Idle]
    /\ http' = [http EXCEPT ![p] = Answered(@, last')]
    /\ UNCHANGED <<env, notTask, tasks, taskSeq, clock>>

(* query strings: gorilla/schema *)

\* strings.EqualFold on the keys and field names that occur
ToLower ==
    [k \in {"UserId", "userid", "user_id", "Limit", "limit", "Page", "page",
            "Completed", "completed", "UnreadOnly", "unread_only",
            "StartDate", "start_date", "EndDate", "end_date"} |->
        CASE k \in {"UserId", "userid"} -> "userid"
          [] k \in {"Limit", "limit"} -> "limit"
          [] k \in {"Page", "page"} -> "page"
          [] k \in {"Completed", "completed"} -> "completed"
          [] k = "UnreadOnly" -> "unreadonly"
          [] k = "StartDate" -> "startdate"
          [] k = "EndDate" -> "enddate"
          [] OTHER -> k]

\* the builtin converters: strconv.ParseInt, strconv.ParseBool, identity
Convert(type, v) ==
    CASE type = "int32" ->
            IF v \in {"-1", "0", "1", "2"}
            THEN [ok |-> TRUE,
                  value |-> CASE v = "-1" -> -1 [] v = "0" -> 0
                              [] v = "1" -> 1 [] v = "2" -> 2]
            ELSE [ok |-> FALSE, value |-> 0]
      [] type = "bool" ->
            IF v \in {"true", "false", "1", "0"}
            THEN [ok |-> TRUE, value |-> v \in {"true", "1"}]
            ELSE [ok |-> FALSE, value |-> FALSE]
      [] OTHER -> [ok |-> TRUE, value |-> v]

\* decoder.Decode(&req, r.URL.Query()).  fields lists the exported fields of
\* the request type: the Go name a key is matched against, ignoring case,
\* since the generated types carry no schema tag; the field of the request
\* it sets; and its type.  A key that matches no field is an error, and so
\* is a value that does not convert.
DecodeQuery(query, zero, fields) ==
    LET known(k) == \E f \in fields : ToLower[f.go] = ToLower[k]
        field(k) == CHOOSE f \in fields : ToLower[f.go] = ToLower[k]
        bad == {k \in DOMAIN query :
                  ~known(k) \/ ~Convert(field(k).type, query[k]).ok}
    IN  IF bad # {}
        THEN [err |-> "schema: invalid query", req |-> zero]
        ELSE [err |-> "",
              req |-> [n \in DOMAIN zero |->
                  IF \E k \in DOMAIN query : field(k).name = n
                  THEN LET k == CHOOSE k \in DOMAIN query : field(k).name = n
                       IN  Convert(field(k).type, query[k]).value
                  ELSE zero[n]]]

(* task routes *)

createTaskHandler(p) ==
    /\ svc = "task" /\ gateway = "serving"
    /\ taskSeq < MaxOid
    /\ \E body \in {MalformedBody, JsonBody([title |-> "buy milk",
            description |-> "2 litres", user_id |-> "u1", due_date |-> RFC3339(0)])} :
         LET d == DecodeJSON(body, [title |-> "", description |-> "",
                 user_id |-> "", due_date |-> <<>>])
         IN  /\ IF "task" \notin clients
                THEN Reject(p, "CreateTask", 503, "task service unavailable")
                ELSE IF d.err # ""
                THEN Reject(p, "CreateTask", 400, "Invalid request payload")
                ELSE \/ CreateTask(p, d.req)
                     \/ Fault(p, "CreateTask", d.req)
             /\ http' = [http EXCEPT ![p] =
                           Exchange("POST /api/tasks", <<>>, body, last')]

\* a handler that calls the backend without looking at the registry:
\* AbsentClientUnavailable tells it from getTaskHandler
getTaskHandlerUnchecked(p) ==
    /\ svc = "task" /\ gateway = "serving"
    /\ \E id \in PathIds :
         /\ GetTask(p, [id |-> id])
         /\ http' = [http EXCEPT ![p] =
                       Exchange("GET /api/tasks/{id}", id, NoBody, last')]

getTaskHandler(p) ==
    /\ svc = "task" /\ gateway = "serving"
    /\ \E id \in PathIds :
         /\ IF "task" \notin clients
            THEN Reject(p, "GetTask", 503, "task service unavailable")
            ELSE \/ GetTask(p, [id |-> id])
                 \/ Fault(p, "GetTask", [id |-> id])
         /\ http' = [http EXCEPT ![p] =
                       Exchange("GET /api/tasks/{id}", id, NoBody, last')]

\* a handler that sends the decoded request as it is, with the id of the
\* body: PathIdSelects tells it from updateTaskHandler
updateTaskHandlerBodyId(p) ==
    /\ svc = "task" /\ gateway = "serving"
    /\ \E id \in PathIds, body \in {MalformedBody, JsonBody(<<>>),
            JsonBody([id |-> Hex(1), title |-> "buy milk",
            description |-> "2 litres", completed |-> TRUE,
            due_date |-> RFC3339(0)])} :
         LET d == DecodeJSON(body, [id |-> <<>>, title |-> "", description |-> "",
                 completed |-> FALSE, due_date |-> <<>>])
         IN  /\ IF d.err # ""
                THEN Reject(p, "UpdateTask", 400, "Invalid request payload")
                ELSE UpdateTask(p, d.req)
             /\ http' = [http EXCEPT ![p] =
                           Exchange("PUT /api/tasks/{id}", id, body, last')]

updateTaskHandler(p) ==
    /\ svc = "task" /\ gateway = "serving"
    /\ \E id \in PathIds, body \in {MalformedBody, JsonBody(<<>>),
            JsonBody([id |-> Hex(1), title |-> "buy milk",
            description |-> "2 litres", completed |-> TRUE,
            due_date |-> RFC3339(0)])} :
         LET d == DecodeJSON(body, [id |-> <<>>, title |-> "", description |-> "",
                 completed |-> FALSE, due_date |-> <<>>])
         IN  /\ IF "task" \notin clients
                THEN Reject(p, "UpdateTask", 503, "task service unavailable")
                ELSE IF d.err # ""
                THEN Reject(p, "UpdateTask", 400, "Invalid request payload")
                ELSE \/ UpdateTask(p, [d.req EXCEPT !.id = id])
                     \/ Fault(p, "UpdateTask", [d.req EXCEPT !.id = id])
             /\ http' = [http EXCEPT ![p] =
                           Exchange("PUT /api/tasks/{id}", id, body, last')]

deleteTaskHandler(p) ==
    /\ svc = "task" /\ gateway = "serving"
    /\ \E id \in PathIds :
         /\ IF "task" \notin clients
            THEN Reject(p, "DeleteTask", 503, "task service unavailable")
            ELSE \/ DeleteTask(p, [id |-> id])
                 \/ Fault(p, "DeleteTask", [id |-> id])
         /\ http' = [http EXCEPT ![p] =
                       Exchange("DELETE /api/tasks/{id}", id, NoBody, last')]

listTasksHandler(p) ==
    /\ svc = "task" /\ gateway = "serving"
    /\ \E query \in {<<>>, [UserId |-> "u1", Limit |-> "1", Page |-> "0"],
            [user_id |-> "u1"], [UserId |-> "u1", Limit |-> "abc"]} :
         LET d == DecodeQuery(query, [user_id |-> "", completed |-> FALSE,
                 limit |-> 0, page |-> 0], {[go |-> "UserId", name |-> "user_id",
                 type |-> "string"], [go |-> "Completed", name |-> "completed",
                 type |-> "bool"], [go |-> "Limit", name |-> "limit",
                 type |-> "int32"], [go |-> "Page", name |-> "page",
                 type |-> "int32"]})
         IN  /\ IF "task" \notin clients
                THEN Reject(p, "ListTasks", 503, "task service unavailable")
                ELSE IF d.err # ""
                THEN Reject(p, "ListTasks", 400, "Invalid query parameters")
                ELSE \/ ListTasks(p, d.req)
                     \/ Fault(p, "ListTasks", d.req)
             /\ http' = [http EXCEPT ![p] =
                           Exchange("GET /api/tasks", <<>>, query, last')]

(* user routes *)

createUserHandler(p) ==
    /\ svc = "user" /\ gateway = "serving"
    /\ userSeq < MaxOid
    /\ \E body \in {MalformedBody, JsonBody([username |-> "alice",
            email |-> "a@x.io", password |-> "pw1"])} :
         LET d == DecodeJSON(body, [username |-> "", email |-> "", password |-> ""])
         IN  /\ IF "user" \notin clients
                THEN Reject(p, "CreateUser", 503, "user service unavailable")
                ELSE IF d.err # ""
                THEN Reject(p, "CreateUser", 400, "Invalid request payload")
                ELSE \/ CreateUser(p, d.req)
                     \/ Fault(p, "CreateUser", d.req)
             /\ http' = [http EXCEPT ![p] =
                           Exchange("POST /api/users", <<>>, body, last')]

getUserHandler(p) ==
    /\ svc = "user" /\ gateway = "serving"
    /\ \E id \in PathIds :
         /\ IF "user" \notin clients
            THEN Reject(p, "GetUser", 503, "user service unavailable")
            ELSE \/ GetUser(p, [id |-> id])
                 \/ Fault(p, "GetUser", [id |-> id])
         /\ http' = [http EXCEPT ![p] =
                       Exchange("GET /api/users/{id}", id, NoBody, last')]

updateUserHandler(p) ==
    /\ svc = "user" /\ gateway = "serving"
    /\ \E id \in PathIds, body \in {MalformedBody, JsonBody(<<>>),
            JsonBody([id |-> Hex(1), username |-> "alice", email |-> "a@x.io",
            password |-> "pw1"])} :
         LET d == DecodeJSON(body, [id |-> <<>>, username |-> "", email |-> "",
                 password |-> ""])
         IN  /\ IF "user" \notin clients
                THEN Reject(p, "UpdateUser", 503, "user service unavailable")
                ELSE IF d.err # ""
                THEN Reject(p, "UpdateUser", 400, "Invalid request payload")
                ELSE \/ UpdateUser(p, [d.req EXCEPT !.id = id])
                     \/ Fault(p, "UpdateUser", [d.req EXCEPT !.id = id])
             /\ http' = [http EXCEPT ![p] =
                           Exchange("PUT /api/users/{id}", id, body, last')]

deleteUserHandler(p) ==
    /\ svc = "user" /\ gateway = "serving"
    /\ \E id \in PathIds :
         /\ IF "user" \notin clients
            THEN Reject(p, "DeleteUser", 503, "user service unavailable")
            ELSE \/ DeleteUser(p, [id |-> id])
                 \/ Fault(p, "DeleteUser", [id |-> id])
         /\ http' = [http EXCEPT ![p] =
                       Exchange("DELETE /api/users/{id}", id, NoBody, last')]

authHandler(p) ==
    /\ svc = "user" /\ gateway = "serving"
    /\ \E body \in {MalformedBody} \cup {JsonBody(r) : r \in AuthRequests} :
         LET d == DecodeJSON(body, [email |-> "", password |-> ""])
         IN  /\ IF "user" \notin clients
                THEN Reject(p, "AuthenticateUser", 503, "user service unavailable")
                ELSE IF d.err # ""
                THEN Reject(p, "AuthenticateUser", 400, "Invalid request payload")
                ELSE \/ AuthenticateUser(p, d.req)
                     \/ Fault(p, "AuthenticateUser", d.req)
             /\ http' = [http EXCEPT ![p] =
                           Exchange("POST /api/auth", <<>>, body, last')]

(* notification routes *)

sendNotificationHandler(p) ==
    /\ svc = "notification" /\ gateway = "serving"
    /\ notificationSeq < MaxOid
    /\ \E body \in {MalformedBody, JsonBody([user_id |-> "u1", message |-> "task due"])} :
         LET d == DecodeJSON(body, [user_id |-> "", message |-> ""])
         IN  /\ IF "notification" \notin clients
                THEN Reject(p, "SendNotification", 503,
                            "notification service unavailable")
                ELSE IF d.err # ""
                THEN Reject(p, "SendNotification", 400, "Invalid request payload")
                ELSE \/ SendNotification(p, d.req)
                     \/ Fault(p, "SendNotification", d.req)
             /\ http' = [http EXCEPT ![p] =
                           Exchange("POST /api/notifications", <<>>, body, last')]

getNotificationsHandler(p) ==
    /\ svc = "notification" /\ gateway = "serving"
    /\ \E query \in {<<>>, [UserId |-> "u1", UnreadOnly |-> "true", Limit |-> "1"],
            [unread_only |-> "true"], [UserId |-> "u1", UnreadOnly |-> "yes"]} :
         LET d == DecodeQuery(query, [user_id |-> "", unread_only |-> FALSE,
                 limit |-> 0, page |-> 0],
                              {[go |-> "UserId", name |-> "user_id",
                                      type |-> "string"], [go |-> "UnreadOnly",
                                      name |-> "unread_only", type |-> "bool"],
                                      [go |-> "Limit", name |-> "limit",
                                      type |-> "int32"], [go |-> "Page",
                                      name |-> "page", type |-> "int32"]})
         IN  /\ IF "notification" \notin clients
                THEN Reject(p, "GetNotifications", 503,
                            "notification service unavailable")
                ELSE IF d.err # ""
                THEN Reject(p, "GetNotifications", 400, "Invalid query parameters")
                ELSE \/ GetNotifications(p, d.req)
                     \/ Fault(p, "GetNotifications", d.req)
             /\ http' = [http EXCEPT ![p] =
                           Exchange("GET /api/notifications", <<>>, query, last')]

(* analytics routes *)

trackEventHandler(p) ==
    /\ svc = "analytics" /\ gateway = "serving"
    /\ eventSeq < MaxOid
    /\ \E body \in {MalformedBody, JsonBody([user_id |-> "u1",
            event_type |-> "task_created", resource_id |-> Hex(1)])} :
         LET d == DecodeJSON(body, [user_id |-> "", event_type |-> "",
                 resource_id |-> "", metadata |-> ""])
         IN  /\ IF "analytics" \notin clients
                THEN Reject(p, "TrackEvent", 503, "analytics service unavailable")
                ELSE IF d.err # ""
                THEN Reject(p, "TrackEvent", 400, "Invalid request payload")
                ELSE \/ TrackEvent(p, d.req)
                     \/ Fault(p, "TrackEvent", d.req)
             /\ http' = [http EXCEPT ![p] =
                           Exchange("POST /api/analytics/events", <<>>, body, last')]

getUserStatsHandler(p) ==
    /\ svc = "analytics" /\ gateway = "serving"
    /\ \E userId \in {"u1", "u2"}, query \in {<<>>, [StartDate |-> "2024-01-01",
            EndDate |-> "2024-12-31"], [start_date |-> "2024-01-01"]} :
         LET d == DecodeQuery(query, [user_id |-> "", start_date |-> "",
                 end_date |-> ""], {[go |-> "UserId", name |-> "user_id",
                 type |-> "string"], [go |-> "StartDate", name |-> "start_date",
                 type |-> "string"], [go |-> "EndDate", name |-> "end_date",
                 type |-> "string"]})
             req == [d.req EXCEPT !.user_id = userId]
         IN  /\ IF "analytics" \notin clients
                THEN Reject(p, "GetUserStats", 503, "analytics service unavailable")
                ELSE IF d.err # ""
                THEN Reject(p, "GetUserStats", 400, "Invalid query parameters")
                ELSE \/ GetUserStats(p, req)
                     \/ Fault(p, "GetUserStats", req)
             /\ http' = [http EXCEPT ![p] =
                           Exchange("GET /api/analytics/users/{id}/stats", userId,
                                    query, last')]

getTaskStatsHandler(p) ==
    /\ svc = "analytics" /\ gateway = "serving"
    /\ \E query \in {<<>>, [StartDate |-> "2024-01-01", EndDate |-> "2024-12-31"],
            [start_date |-> "2024-01-01"]} :
         LET d == DecodeQuery(query, [start_date |-> "", end_date |-> ""],
                 {[go |-> "StartDate", name |-> "start_date", type |-> "string"],
                 [go |-> "EndDate", name |-> "end_date", type |-> "string"]})
         IN  /\ IF "analytics" \notin clients
                THEN Reject(p, "GetTaskStats", 503, "analytics service unavailable")
                ELSE IF d.err # ""
                THEN Reject(p, "GetTaskStats", 400, "Invalid query parameters")
                ELSE \/ GetTaskStats(p, d.req)
                     \/ Fault(p, "GetTaskStats", d.req)
             /\ http' = [http EXCEPT ![p] =
                           Exchange("GET /api/analytics/tasks/stats", <<>>, query,
                                    last')]

\* GET /health: answered by the process itself
healthCheckHandler(p) ==
    /\ gateway = "serving"
    /\ Quiet /\ call[p] = Idle
    /\ last' = [Rejected("health", 200, "") EXCEPT !.payload = [status |-> "ok"]]
    /\ http' = [http EXCEPT ![p] = Exchange("GET /health", <<>>, NoBody, last')]
    /\ UNCHANGED <<env, notTask, tasks, taskSeq, clock, call>>

\* time passes
Tick ==
    /\ Quiet /\ clock < MaxClock
    /\ clock' = clock + 1
    /\ UNCHANGED <<env, notTask, notUser, call, last, http>>

(* --------------------------- specifications ---------------------------- *)

Services == {"task", "user", "notification", "analytics"}

\* every collection empty, no call in flight, no request in progress
Empty ==
    /\ http = [p \in Procs |-> NoExchange]
    /\ events = <<>>
    /\ eventSeq = 0
    /\ tasks = <<>>
    /\ taskSeq = 0
    /\ users = <<>>
    /\ userSeq = 0
    /\ notifications = <<>>
    /\ notificationSeq = 0
    /\ clock = 0
    /\ call = [p \in Procs |-> Idle]
    /\ last = NoCall

\* every process is up: initServiceClients has returned with all four
\* clients, and every backend answers
Start ==
    /\ clients = Services
    /\ gateway = "serving"
    /\ faults = FALSE
    /\ Empty

InitCrud == Start /\ svc \in {"task", "user"}

\* the reply of the completed call is handed to its caller, and the handler
\* that wrote a response returns
Return ==
    /\ last # NoCall
    /\ last' = NoCall
    /\ http' = [p \in Procs |->
                  IF http[p].state \in {"Succeeded", "Failed"}
                  THEN NoExchange ELSE http[p]]
    /\ UNCHANGED <<env, notTask, notUser, clock, call>>

\* the create/read/update/delete operations of the Task and User services,
\* called directly and through the gateway.  A reply is handed over before
\* the next step is taken, so last always is the outcome of the latest step.
NextCrud ==
    \/ Return
    \/ Tick
    \/ \E p \in Procs :
        \/ CrudCreateTask(p)
        \/ CrudGetTask(p)
        \/ CrudUpdateTask(p)
        \/ UpdateTaskReadBack(p)
        \/ CrudDeleteTask(p)
        \/ deleteTaskHandler(p)
        \/ CrudCreateUser(p)
        \/ CrudGetUser(p)
        \/ CrudUpdateUser(p)
        \/ UpdateUserReadBack(p)
        \/ CrudDeleteUser(p)
        \/ CrudAuthenticateUser(p)
        \/ deleteUserHandler(p)
        \/ authHandler(p)

SpecCrud == InitCrud /\ [][NextCrud]_vars

(* ------------------------------ listing -------------------------------- *)

UserIds == {"u1", "u2"}

\* page sizes and page numbers a caller sends: negative, zero and positive
Limits == {-1, 0, 1, 2}

Pages == {0, 1}

\* the ids the tasks collection has assigned
AssignedTaskIds == {Hex(oid) : oid \in 1..taskSeq}

ListCreateTask(p) ==
    /\ svc = "task"
    /\ taskSeq < MaxListed
    /\ \E u \in UserIds :
          CreateTask(p, [title |-> "buy milk", description |-> "2 litres",
                         user_id |-> u, due_date |-> RFC3339(0)])
    /\ UNCHANGED http

\* the task is ticked off
ListUpdateTask(p) ==
    /\ svc = "task"
    /\ \E i \in AssignedTaskIds :
          UpdateTask(p, [id |-> i, title |-> "buy milk",
                         description |-> "2 litres", completed |-> TRUE,
                         due_date |-> RFC3339(0)])
    /\ UNCHANGED http

ListDeleteTask(p) ==
    /\ svc = "task" /\ \E i \in AssignedTaskIds : DeleteTask(p, [id |-> i])
    /\ UNCHANGED http

\* a page size and a page number whose product does not fit an int32
LargeLimit == 65536

LargePage == 65536

\* two listings do not affect each other: one is in flight at a time
ListListTasks(p) ==
    /\ svc = "task"
    /\ \A q \in Procs : call[q].op \notin {"ListTasks", "GetNotifications"}
    /\ \E u \in UserIds, c \in BOOLEAN, l \in Limits, g \in Pages :
          ListTasks(p, [user_id |-> u, completed |-> c, limit |-> l, page |-> g])
    /\ UNCHANGED http

ListSendNotification(p) ==
    /\ svc = "notification"
    /\ notificationSeq < MaxListed
    /\ \E u \in UserIds :
          SendNotification(p, [user_id |-> u, message |-> "task due"])
    /\ UNCHANGED http

ListGetNotifications(p) ==
    /\ svc = "notification"
    /\ \A q \in Procs : call[q].op \notin {"ListTasks", "GetNotifications"}
    /\ \E u \in UserIds, r \in BOOLEAN, l \in Limits \cup {LargeLimit},
             g \in Pages \cup {LargePage} :
          GetNotifications(p, [user_id |-> u, unread_only |-> r, limit |-> l,
                               page |-> g])
    /\ UNCHANGED http

\* a listing of tasks does not read the clock; notifications are sorted by it
ListTick == svc = "notification" /\ Tick

InitList == Start /\ svc \in {"task", "notification"}

\* the two paginated listings, next to the writes that change what they list
NextList ==
    \/ Return
    \/ ListTick
    \/ \E p \in Procs :
        \/ ListCreateTask(p)
        \/ ListUpdateTask(p)
        \/ UpdateTaskReadBack(p)
        \/ ListDeleteTask(p)
        \/ ListListTasks(p)
        \/ ListTasksCount(p)
        \/ ListSendNotification(p)
        \/ ListGetNotifications(p)
        \/ GetNotificationsCount(p)

SpecList == InitList /\ [][NextList]_vars

(* ----------------- properties of create/read/update/delete ------------- *)

\* C1, the task lifecycle.  A CreateTask that succeeds returns a non-empty id
\* and completed = false, and a GetTask issued next on that id returns exactly
\* the fields the create returned.  A DeleteTask on a well-formed id returns
\* success, after which a GetTask on that id finds no document.  A GetTask
\* returns the stored document of its id, and ErrNoDocuments when there is
\* none.  An id the collection assigned and no longer holds is never held
\* again, so every later GetTask on a deleted id fails the same way.
TaskLifecycle ==
    /\ [](/\ (last.op = "CreateTask" /\ last.called /\ last.err = "") =>
                LET g == GetTaskReply(tasks, [id |-> last.resp.task.id])
                IN  /\ last.resp.task.id # <<>>
                    /\ last.resp.task.completed = FALSE
                    /\ g.err = ""
                    /\ g.resp = last.resp
          /\ (last.op = "DeleteTask" /\ last.called
                /\ last.req.id \notin MalformedIds) =>
                /\ last.err = ""
                /\ last.resp = [success |-> TRUE]
                /\ GetTaskReply(tasks, [id |-> last.req.id]).err = ErrNoDocuments
          /\ (last.op = "GetTask" /\ last.called
                /\ last.req.id \notin MalformedIds) =>
                LET oid == HexDecode(last.req.id)
                IN  IF oid \in DOMAIN tasks
                    THEN /\ last.err = ""
                         /\ last.resp = [task |-> TaskToPb(oid, tasks[oid])]
                    ELSE /\ last.err = ErrNoDocuments
                         /\ last.resp = NoResp)
    /\ [][/\ taskSeq' >= taskSeq
          /\ \A oid \in 1..taskSeq :
                oid \notin DOMAIN tasks => oid \notin DOMAIN tasks']_vars

\* a GetTask on the id of a task that was created and then deleted
TaskLifecycleReached ==
    /\ last.op = "GetTask" /\ last.called
    /\ taskSeq = 1 /\ last.req.id = Hex(1)
    /\ last.err = ErrNoDocuments

\* C2: every CreateTask that succeeds returns, and stores, completed = false
\* and a created_at equal to updated_at, whatever the request fields
CreateTaskDefaults ==
    (last.op = "CreateTask" /\ last.called /\ last.err = "") =>
        LET t == last.resp.task
            oid == HexDecode(t.id)
        IN  /\ t.completed = FALSE
            /\ t.created_at = t.updated_at
            /\ oid \in DOMAIN tasks
            /\ tasks[oid].completed = FALSE
            /\ tasks[oid].created_at = tasks[oid].updated_at
            /\ tasks[oid].created_at = RFC3339(clock)

\* a CreateTask of the scenario's task, after the clock moved
CreateTaskDefaultsReached ==
    /\ last.op = "CreateTask" /\ last.called /\ last.err = ""
    /\ last.req.title = "buy milk"
    /\ last.resp.task.created_at = RFC3339(1)

\* C3: when UpdateTask or UpdateUser succeeds, a Get issued next on the same
\* id returns what the Update returned; and when no other caller wrote the
\* record between the patch and the return, these are the values of the
\* update request
UpdateThenGet ==
    /\ (last.op = "UpdateTask" /\ last.called /\ last.err = "") =>
          LET g == GetTaskReply(tasks, [id |-> last.req.id])
          IN  /\ g.err = ""
              /\ g.resp = last.resp
              /\ last.clean =>
                    /\ g.resp.task.title = last.req.title
                    /\ g.resp.task.description = last.req.description
                    /\ g.resp.task.completed = last.req.completed
                    /\ g.resp.task.due_date = last.req.due_date
    /\ (last.op = "UpdateUser" /\ last.called /\ last.err = "") =>
          LET g == GetUserReply(users, [id |-> last.req.id])
          IN  /\ g.err = ""
              /\ g.resp = last.resp
              /\ last.clean =>
                    /\ g.resp.user.username = last.req.username
                    /\ g.resp.user.email = last.req.email

\* an UpdateTask that emptied a task's fields some time after its creation,
\* with no other write in between
UpdateThenGetReached ==
    /\ last.op = "UpdateTask" /\ last.called /\ last.err = "" /\ last.clean
    /\ last.req.title = ""
    /\ last.resp.task.created_at # last.resp.task.updated_at

\* C4: a DeleteTask or DeleteUser with a well-formed id returns success and
\* the gateway answers 200; when the id matches no record the store is left
\* as it was.  So deleting the same id twice gives success both times.
DeleteIdempotent ==
    [][(/\ last = NoCall
        /\ last'.op \in {"DeleteTask", "DeleteUser"}
        /\ last'.called
        /\ last'.req.id \notin MalformedIds) =>
            LET oid == HexDecode(last'.req.id)
                coll == IF last'.op = "DeleteTask" THEN tasks ELSE users
            IN  /\ last'.err = ""
                /\ last'.resp = [success |-> TRUE]
                /\ last'.status = 200
                /\ last'.payload = [success |-> TRUE]
                /\ oid \notin DOMAIN coll => (tasks' = tasks /\ users' = users)]_vars

\* a DeleteTask on the id of a task that is no longer stored
DeleteIdempotentReached ==
    /\ last.op = "DeleteTask" /\ last.called
    /\ taskSeq = 1 /\ last.req.id = Hex(1)
    /\ last.err = "" /\ last.status = 200
    /\ 1 \notin DOMAIN tasks

\* C7: after any sequence of CreateUser and UpdateUser calls, every stored
\* password is a bcrypt hash of a password some caller supplied and never a
\* supplied plaintext; the hash a CreateUser, or an UpdateUser with a
\* non-empty password that no other caller overtook, leaves behind is one of
\* the password of that request
StoredPasswordsHashed ==
    LET supplied == {x.password : x \in UserInputs}
    IN  /\ \A oid \in DOMAIN users :
              /\ users[oid].password \notin supplied
              /\ \E password \in supplied, salt \in Salts :
                    users[oid].password = GenerateFromPassword(password, salt)
        /\ (last.op = "CreateUser" /\ last.called /\ last.err = "") =>
              CompareHashAndPassword(users[HexDecode(last.resp.user.id)].password,
                                     last.req.password) = ""
        /\ (last.op = "UpdateUser" /\ last.called /\ last.err = ""
              /\ last.clean /\ last.req.password # "") =>
              CompareHashAndPassword(users[HexDecode(last.req.id)].password,
                                     last.req.password) = ""

\* an UpdateUser that replaced the empty password a user was created with
StoredPasswordsHashedReached ==
    /\ last.op = "UpdateUser" /\ last.called /\ last.err = "" /\ last.clean
    /\ last.req.password = "pw1"
    /\ last.resp.user.created_at # last.resp.user.updated_at
    /\ users[HexDecode(last.req.id)].password = GenerateFromPassword("pw1", "s2")

\* C8: the user object CreateUser, GetUser, UpdateUser and AuthenticateUser
\* return, and the one the gateway writes, has the fields id, username, email,
\* created_at and updated_at and no other, and none of its text fields is a
\* stored hash; AuthenticateUser adds only the token; a failed call returns
\* no object at all
UserResponseFields ==
    (last.called /\ last.op \in {"CreateUser", "GetUser", "UpdateUser",
                                 "AuthenticateUser"}) =>
        IF last.err # ""
        THEN /\ last.resp = NoResp
             /\ DOMAIN last.payload = {"error"}
        ELSE /\ DOMAIN last.resp.user =
                    {"id", "username", "email", "created_at", "updated_at"}
             /\ last.payload = last.resp
             /\ DOMAIN last.resp = IF last.op = "AuthenticateUser"
                                   THEN {"token", "user"} ELSE {"user"}
             /\ \A oid \in DOMAIN users :
                    /\ last.resp.user.username # users[oid].password
                    /\ last.resp.user.email # users[oid].password

\* an AuthenticateUser that accepted a password
UserResponseFieldsReached ==
    /\ last.op = "AuthenticateUser" /\ last.called /\ last.err = ""
    /\ last.req.password = "pw1"
    /\ last.status = 200

\* C9: an authentication that fails, because no user has the email or because
\* the password does not match the user that has it, is answered 401 with one
\* and the same body
AuthFailureUniform ==
    (last.op = "AuthenticateUser" /\ last.called) =>
        LET known == {oid \in DOMAIN users : users[oid].email = last.req.email}
            wrong == \A oid \in known :
                        CompareHashAndPassword(users[oid].password,
                                               last.req.password) # ""
        IN  /\ wrong => last.err # ""
            /\ last.err # "" =>
                  /\ last.status = 401
                  /\ last.payload = ErrorPayload("Authentication failed")

\* a wrong password for the email of a stored user
AuthFailureUniformReached ==
    /\ last.op = "AuthenticateUser" /\ last.called
    /\ last.err = ErrMismatchedHashAndPassword
    /\ \E oid \in DOMAIN users : users[oid].email = last.req.email
    /\ last.status = 401

\* C10: Get, Update and Delete of the Task and User services, given a
\* malformed id, return an error without having issued a store operation, and
\* leave both collections as they were
MalformedIdRejected ==
    [][(/\ last = NoCall
        /\ last'.called
        /\ last'.op \in {"GetTask", "UpdateTask", "DeleteTask",
                         "GetUser", "UpdateUser", "DeleteUser"}
        /\ last'.req.id \in MalformedIds) =>
            /\ last'.err # ""
            /\ last'.resp = NoResp
            /\ last'.storeOps = <<>>
            /\ tasks' = tasks
            /\ users' = users]_vars

\* an UpdateUser with the empty string for an id, on a non-empty collection
MalformedIdRejectedReached ==
    /\ last.op = "UpdateUser" /\ last.called
    /\ last.req.id = <<>>
    /\ last.err = ErrInvalidHex
    /\ users # <<>>

(* ----------------------- properties of the listings -------------------- *)

\* C5: a ListTasks or GetNotifications with limit L returns at most L items,
\* and none at all when L is 0 or less
ListLimitBound ==
    (last.op \in {"ListTasks", "GetNotifications"} /\ last.called
        /\ last.err = "") =>
        LET page == IF last.op = "ListTasks" THEN last.resp.tasks
                    ELSE last.resp.notifications
        IN  IF last.req.limit <= 0 THEN Len(page) = 0
            ELSE Len(page) <= last.req.limit

\* C6: the total a ListTasks or GetNotifications returns is the number of
\* stored records of the requested user that pass the optional predicate,
\* whatever the limit and the page, pages past the end included
ListTotal ==
    /\ (last.op = "ListTasks" /\ last.called /\ last.err = "") =>
          last.resp.total =
              Cardinality({oid \in DOMAIN tasks :
                  /\ tasks[oid].user_id = last.req.user_id
                  /\ last.req.completed => tasks[oid].completed})
    /\ (last.op = "GetNotifications" /\ last.called /\ last.err = "") =>
          last.resp.total =
              Cardinality({oid \in DOMAIN notifications :
                  /\ notifications[oid].user_id = last.req.user_id
                  /\ last.req.unread_only => ~notifications[oid].read})

\* a ListTasks for a page past the end of a user's two tasks
ListTotalReached ==
    /\ last.op = "ListTasks" /\ last.called /\ last.err = "" /\ last.clean
    /\ last.req.limit = 2 /\ last.req.page = 1
    /\ last.resp.tasks = <<>>
    /\ last.resp.total = 2

(* ------------------------------ gateway -------------------------------- *)

\* initServiceClients: the four grpc.Dial calls, in order.  The first one
\* that returns an error ends the process through log.Fatalf; otherwise the
\* registry holds all four clients and ListenAndServe is reached.
initServiceClients ==
    /\ gateway = "starting"
    /\ \E dialErrors \in SUBSET Services :
         IF dialErrors = {}
         THEN /\ gateway' = "serving"
              /\ clients' = Services
         ELSE /\ gateway' = "exited"
              /\ clients' = {}
    /\ UNCHANGED <<svc, faults, notTask, notUser, clock, call, last, http>>

\* the gateway process is launched; backends may fail to answer
InitGateway ==
    /\ svc \in Services
    /\ clients = {}
    /\ gateway = "starting"
    /\ faults = TRUE
    /\ Empty

\* every route of the gateway, the steps of the backend calls they start,
\* and the deadline of those calls
NextGateway ==
    \/ initServiceClients
    \/ Return
    \/ \E p \in Procs :
        \/ healthCheckHandler(p)
        \/ createTaskHandler(p)
        \/ getTaskHandler(p)
        \/ updateTaskHandler(p)
        \/ UpdateTaskReadBack(p)
        \/ deleteTaskHandler(p)
        \/ listTasksHandler(p)
        \/ ListTasksCount(p)
        \/ createUserHandler(p)
        \/ getUserHandler(p)
        \/ updateUserHandler(p)
        \/ UpdateUserReadBack(p)
        \/ deleteUserHandler(p)
        \/ authHandler(p)
        \/ sendNotificationHandler(p)
        \/ getNotificationsHandler(p)
        \/ GetNotificationsCount(p)
        \/ trackEventHandler(p)
        \/ getUserStatsHandler(p)
        \/ GetUserStatsCompleted(p)
        \/ GetUserStatsPending(p)
        \/ GetUserStatsOverdue(p)
        \/ getTaskStatsHandler(p)
        \/ GetTaskStatsCompleted(p)
        \/ GetTaskStatsActiveUsers(p)
        \/ Timeout(p)

SpecGateway == InitGateway /\ [][NextGateway]_vars

(* --------------------------- gateway claims ---------------------------- *)

\* the routes with an {id} that names a task or a user
IdRoutes ==
    {"GET /api/tasks/{id}", "PUT /api/tasks/{id}", "DELETE /api/tasks/{id}",
     "GET /api/users/{id}", "PUT /api/users/{id}", "DELETE /api/users/{id}"}

\* the request of caller p is over and its response written
Responded(p) == http[p].state \in {"Succeeded", "Failed"}

\* C11: on every Get, Update and Delete route of tasks and users, a request
\* whose path identifier is malformed is answered 400, and no backend is
\* called for it.  (The gateway passes the identifier on unexamined: the
\* backend's conversion error comes back as a 500.)
MalformedPathIdRejected ==
    \A p \in Procs :
        (/\ Responded(p)
         /\ http[p].route \in IdRoutes
         /\ http[p].path \in MalformedIds)
            => http[p].status = 400

\* the request bodies and query strings of the requests above that the
\* decoders refuse: a body that is no JSON, a query key that names no field
\* of the request type, a value that is no number or no boolean
UndecodableInputs ==
    {MalformedBody,
     [user_id |-> "u1"],
     [UserId |-> "u1", Limit |-> "abc"],
     [unread_only |-> "true"],
     [UserId |-> "u1", UnreadOnly |-> "yes"],
     [start_date |-> "2024-01-01"]}

\* C12: in every handler that decodes a JSON body or a query string, a
\* request whose body or query string fails to decode is answered 400, and
\* no backend is called for it.
DecodeFailureRejected ==
    \A p \in Procs :
        (http[p].state # "none" /\ http[p].input \in UndecodableInputs)
            => /\ Responded(p)
               /\ http[p].status = 400
               /\ http[p].calls = 0

\* a request whose body or query string does not decode has been answered
\* 400 without a backend call
DecodeFailureRejectedReached ==
    \E p \in Procs :
        /\ Responded(p)
        /\ http[p].input \in UndecodableInputs
        /\ http[p].status = 400
        /\ http[p].calls = 0

\* the errors of AuthenticateUser that say the credentials are wrong: no
\* user has the email, or the password does not match the stored hash
CredentialErrors == {ErrNoDocuments, ErrMismatchedHashAndPassword}

\* C13: on every route an error of the backend call is answered 500, except
\* that POST /api/auth answers 401 when the credentials are wrong, and only
\* then: a backend failure of another kind (the store fails, the deadline
\* passes, the backend cannot be reached) is answered 500 there as well.
\* (authHandler answers 401 whatever the error is.)
BackendErrorStatus ==
    \A p \in Procs :
        (Responded(p) /\ last.called /\ last.err # "")
            => http[p].status =
                  IF /\ http[p].route = "POST /api/auth"
                     /\ last.err \in CredentialErrors
                  THEN 401 ELSE 500

(* ------------------------------ registry ------------------------------- *)

\* the handler constructors take the registry as their argument; main hands
\* them the one initServiceClients returned, which holds all four clients.
\* Here they are given every registry a *ServiceClients can hold.
InitRegistry ==
    /\ svc \in Services
    /\ clients \in SUBSET Services
    /\ gateway = "serving"
    /\ faults = FALSE
    /\ Empty

NextRegistry ==
    \/ Return
    \/ \E p \in Procs :
        \/ healthCheckHandler(p)
        \/ createTaskHandler(p)
        \/ getTaskHandler(p)
        \/ updateTaskHandler(p)
        \/ UpdateTaskReadBack(p)
        \/ deleteTaskHandler(p)
        \/ listTasksHandler(p)
        \/ ListTasksCount(p)
        \/ createUserHandler(p)
        \/ getUserHandler(p)
        \/ updateUserHandler(p)
        \/ UpdateUserReadBack(p)
        \/ deleteUserHandler(p)
        \/ authHandler(p)
        \/ sendNotificationHandler(p)
        \/ getNotificationsHandler(p)
        \/ GetNotificationsCount(p)
        \/ trackEventHandler(p)
        \/ getUserStatsHandler(p)
        \/ GetUserStatsCompleted(p)
        \/ GetUserStatsPending(p)
        \/ GetUserStatsOverdue(p)
        \/ getTaskStatsHandler(p)
        \/ GetTaskStatsCompleted(p)
        \/ GetTaskStatsActiveUsers(p)

SpecRegistry == InitRegistry /\ [][NextRegistry]_vars

\* the domain whose client the handler of a route uses
RouteDomain(route) ==
    CASE route \in {"POST /api/tasks", "GET /api/tasks", "GET /api/tasks/{id}",
                    "PUT /api/tasks/{id}", "DELETE /api/tasks/{id}"} -> "task"
      [] route \in {"POST /api/users", "GET /api/users/{id}",
                    "PUT /api/users/{id}", "DELETE /api/users/{id}",
                    "POST /api/auth"} -> "user"
      [] route \in {"POST /api/notifications", "GET /api/notifications"}
            -> "notification"
      [] route \in {"POST /api/analytics/events",
                    "GET /api/analytics/users/{id}/stats",
                    "GET /api/analytics/tasks/stats"} -> "analytics"
      [] OTHER -> "none"

\* C14: when the registry lacks the client of a domain, every route of that
\* domain answers 503 with the domain's "service unavailable" message,
\* whatever the body or query string is, and calls no backend; a route whose
\* client is present is never answered 503, whichever other clients are
\* missing; GET /health answers 200 under every registry and never calls a
\* backend.
AbsentClientUnavailable ==
    \A p \in Procs :
        http[p].state # "none" =>
            LET h == http[p]
                domain == RouteDomain(h.route)
            IN  IF h.route = "GET /health"
                THEN /\ Responded(p)
                     /\ h.status = 200 /\ h.payload = [status |-> "ok"]
                     /\ h.calls = 0
                ELSE IF domain \notin clients
                THEN /\ Responded(p)
                     /\ h.status = 503
                     /\ h.payload = ErrorPayload(domain \o " service unavailable")
                     /\ h.calls = 0
                ELSE /\ Responded(p) => h.status # 503
                     /\ h.input \notin UndecodableInputs => h.calls = 1

\* a request with a body that does not decode has been answered 503, not
\* 400, by a route whose client is missing, while another client is present
AbsentClientUnavailableReached ==
    \E p \in Procs :
        /\ Responded(p)
        /\ RouteDomain(http[p].route) \notin clients \cup {"none"}
        /\ clients # {}
        /\ http[p].input = MalformedBody
        /\ http[p].status = 503

\* C15: when connecting to a backend fails while the gateway starts, the
\* gateway starts all the same and serves /health and the routes of the other
\* backends: whatever the dials return, the process goes from starting to
\* serving and never ends.  (A dial error ends the process in log.Fatalf
\* before a route is registered.)
StartsWithoutBackend == gateway \in {"starting", "serving"}

\* the errors a Domain Service returns from its handlers
ServiceErrors ==
    {ErrInvalidHex, ErrNoDocuments, ErrNegativeSkip,
     ErrMismatchedHashAndPassword, ErrStore}

\* C16: when a backend call outlasts the gateway's timeout, the call is given
\* up and the response tells the timeout from every other backend failure:
\* its status and body differ from those the same route writes when the
\* service returns an error or cannot be reached.  (On POST /api/auth a
\* timeout is answered like wrong credentials.)
TimeoutDistinguishable ==
    \A p \in Procs :
        (Responded(p) /\ last.err = ErrDeadlineExceeded)
            => LET written == [status |-> http[p].status,
                               payload |-> http[p].payload]
               IN  /\ call[p] = Idle
                   /\ \A e \in ServiceErrors :
                        RespondBackend(last.op, e, NoResp) # written
                   /\ RespondRpcError(last.op, ErrUnavailable) # written

\* C17: no response body of the gateway holds the text of an error that a
\* store operation or a Domain Service produced, neither bare nor inside the
\* text of the gRPC status.  (The 500 branch of the handlers writes
\* err.Error() as the body.)
ErrorTextWithheld ==
    \A p \in Procs :
        (Responded(p) /\ "error" \in DOMAIN http[p].payload)
            => \A e \in ServiceErrors :
                  http[p].payload.error \notin {e, GrpcError(e)}

\* the gateway under the scheduling of the Go runtime: a handler that wrote
\* its response returns, and the timer of context.WithTimeout fires however
\* often other requests are served in between
SpecGatewayFair ==
    /\ SpecGateway
    /\ WF_vars(Return)
    /\ \A p \in Procs : SF_vars(Timeout(p))

\* where the request of caller p stands: calls made and responses written
\* fit the state of the request
ExchangeConsistent(p) ==
    LET h == http[p]
    IN  CASE h.state = "none" -> call[p] = Idle
          [] h.state = "Dispatched" ->
                /\ h.calls = 1 /\ h.responses = 0
                /\ h.input \notin UndecodableInputs
                /\ call[p] # Idle
          [] h.state = "Succeeded" ->
                /\ h.responses = 1 /\ h.status < 400
                /\ h.calls = IF h.route = "GET /health" THEN 0 ELSE 1
                /\ call[p] = Idle
          [] h.state = "Failed" ->
                /\ h.responses = 1 /\ h.status >= 400
                /\ h.calls <= 1
                /\ call[p] = Idle
          [] OTHER -> FALSE

\* C18: every request of the gateway goes from received over decoded and
\* dispatched to succeeded or failed.  At most one backend call is made for
\* it and never a second attempt; exactly one response is written, when the
\* request succeeds or fails; a request that succeeded or failed changes no
\* more until its handler returns; and a dispatched request succeeds or
\* fails even if the backend never answers, since every route's call has
\* the same deadline.
RequestLifecycle ==
    /\ [](\A p \in Procs : ExchangeConsistent(p))
    /\ [][\A p \in Procs :
            /\ Responded(p) => http'[p] \in {http[p], NoExchange}
            /\ http[p].state = "Dispatched" =>
                  /\ http'[p].state \in {"Dispatched", "Succeeded", "Failed"}
                  /\ http'[p].calls = 1
                  /\ http'[p].route = http[p].route]_vars
    /\ \A p \in Procs :
          (http[p].state = "Dispatched") ~> Responded(p)

\* the deadline has ended a request whose backend never answered
RequestLifecycleReached ==
    \E p \in Procs :
        /\ http[p].state = "Failed"
        /\ http[p].calls = 1 /\ http[p].responses = 1
        /\ last.err = ErrDeadlineExceeded

\* the two update routes
PutRoutes == {"PUT /api/tasks/{id}", "PUT /api/users/{id}"}

\* C19: on PUT /api/tasks/{id} and PUT /api/users/{id} the id of the request
\* sent to the backend is the id of the path, whatever id the body carries,
\* and the step that serves the request changes no record but the one the
\* path names.
PathIdSelects ==
    /\ [](\A p \in Procs :
            (http[p].state # "none" /\ http[p].route \in PutRoutes
                /\ http[p].calls = 1)
               => IF Responded(p) THEN last.req.id = http[p].path
                  ELSE call[p].req.id = http[p].path)
    /\ [][\A p \in Procs :
            (/\ http[p].state = "none" /\ http'[p].state # "none"
             /\ http'[p].route \in PutRoutes)
               => /\ \A o \in DOMAIN tasks :
                       tasks'[o] # tasks[o] => Hex(o) = http'[p].path
                  /\ \A o \in DOMAIN users :
                       users'[o] # users[o] => Hex(o) = http'[p].path]_vars

\* an update is under way whose body names a stored record and whose path
\* names another id: the request in flight carries the id of the path
PathIdSelectsReached ==
    \E p \in Procs :
        /\ http[p].state = "Dispatched"
        /\ http[p].route \in PutRoutes
        /\ ~http[p].input.malformed
        /\ "id" \in DOMAIN http[p].input.object
        /\ http[p].input.object.id # http[p].path
        /\ ObjectIDFromHex(http[p].input.object.id).oid \in DOMAIN tasks \cup DOMAIN users
        /\ call[p].op \in {"UpdateTask", "UpdateUser"}
        /\ call[p].req.id = http[p].path

(* ----------------------------- statistics ------------------------------ *)

\* the tasks the statistics count
MaxCounted == 2

StatsCreateTask(p) ==
    /\ svc = "analytics"
    /\ taskSeq < MaxCounted
    /\ \E u \in UserIds :
          CreateTask(p, [title |-> "buy milk", description |-> "2 litres",
                         user_id |-> u, due_date |-> RFC3339(0)])
    /\ UNCHANGED http

\* a task is ticked off, or opened again
StatsUpdateTask(p) ==
    /\ svc = "analytics"
    /\ \E i \in AssignedTaskIds, c \in BOOLEAN :
          UpdateTask(p, [id |-> i, title |-> "buy milk",
                         description |-> "2 litres", completed |-> c,
                         due_date |-> RFC3339(0)])
    /\ UNCHANGED http

StatsDeleteTask(p) ==
    /\ svc = "analytics" /\ \E i \in AssignedTaskIds : DeleteTask(p, [id |-> i])
    /\ UNCHANGED http

\* one statistics call is in flight at a time
StatsGetTaskStats(p) ==
    /\ svc = "analytics"
    /\ \A q \in Procs : call[q].op # "GetTaskStats"
    /\ GetTaskStats(p, [start_date |-> "", end_date |-> ""])
    /\ UNCHANGED http

InitStats == Start /\ svc = "analytics"

\* GetTaskStats called directly, next to the Task service's writes to the
\* collection it counts
NextStats ==
    \/ Return
    \/ \E p \in Procs :
        \/ StatsCreateTask(p)
        \/ StatsUpdateTask(p)
        \/ UpdateTaskReadBack(p)
        \/ StatsDeleteTask(p)
        \/ StatsGetTaskStats(p)
        \/ GetTaskStatsCompleted(p)
        \/ GetTaskStatsActiveUsers(p)

SpecStats == InitStats /\ [][NextStats]_vars

MaxAccounts == 2

\* the requests of UserInputs, and one with the scenario's email and another
\* password
AccountInputs ==
    UserInputs
       \cup {[username |-> "alice", email |-> "a@x.io", password |-> "pw2"]}

\* CreateUser looks for no user with the same email, and the collection has
\* no unique index
AccountsCreateUser(p) ==
    /\ svc = "user"
    /\ userSeq < MaxAccounts
    /\ \E x \in AccountInputs : CreateUser(p, x)
    /\ UNCHANGED http

AccountsUpdateUser(p) ==
    /\ svc = "user"
    /\ \E i \in {Hex(oid) : oid \in 1..userSeq}, x \in AccountInputs :
          UpdateUser(p, UpdateUserRequest(i, x))
    /\ UNCHANGED http

AccountsDeleteUser(p) ==
    /\ svc = "user"
    /\ \E i \in {Hex(oid) : oid \in 1..userSeq} : DeleteUser(p, [id |-> i])
    /\ UNCHANGED http

AccountsAuthenticateUser(p) ==
    /\ svc = "user"
    /\ \E x \in AccountInputs, y \in AccountInputs :
          AuthenticateUser(p, [email |-> x.email, password |-> y.password])
    /\ UNCHANGED http

InitAccounts == Start /\ svc = "user"

\* the User service called directly by two callers
NextAccounts ==
    \/ Return
    \/ \E p \in Procs :
        \/ AccountsCreateUser(p)
        \/ AccountsUpdateUser(p)
        \/ UpdateUserReadBack(p)
        \/ AccountsDeleteUser(p)
        \/ AccountsAuthenticateUser(p)

SpecAccounts == InitAccounts /\ [][NextAccounts]_vars

(* ------------------------- later service claims ------------------------ *)

\* C21: CreateUser validates its mandatory fields: a request whose username,
\* email or password is empty returns an error, and no user is inserted for
\* it.  (CreateUser hashes and inserts whatever it is sent.)
CreateUserValidates ==
    (/\ last.op = "CreateUser" /\ last.called
     /\ \/ last.req.username = ""
        \/ last.req.email = ""
        \/ last.req.password = "")
        => /\ last.err # ""
           /\ "InsertOne" \notin {last.storeOps[i] : i \in DOMAIN last.storeOps}

\* C22: an UpdateTask or UpdateUser that reaches its read-back fails with
\* the store's not-found error exactly when the record of its id is absent
\* then, be it that the id never named a record or that a Delete of the id
\* ran between the patch and the read-back; and an update creates no record:
\* records appear only as a create assigns a new id.
UpdateNotFound ==
    /\ [](/\ (last.op = "UpdateTask" /\ Len(last.storeOps) = 2)
               => (last.err = ErrNoDocuments
                     <=> ObjectIDFromHex(last.req.id).oid \notin DOMAIN tasks)
          /\ (last.op = "UpdateUser" /\ Len(last.storeOps) = 2)
               => (last.err = ErrNoDocuments
                     <=> ObjectIDFromHex(last.req.id).oid \notin DOMAIN users)
          /\ last.op \in {"UpdateTask", "UpdateUser"}
               => last.err \in {"", ErrNoDocuments, ErrInvalidHex})
    /\ [][/\ taskSeq' = taskSeq => DOMAIN tasks' \subseteq DOMAIN tasks
          /\ userSeq' = userSeq => DOMAIN users' \subseteq DOMAIN users]_vars

\* an update of a record that existed has failed with not-found after
\* another caller's write to the same id overtook it
UpdateNotFoundReached ==
    /\ last.op \in {"UpdateTask", "UpdateUser"}
    /\ last.err = ErrNoDocuments
    /\ ~last.clean
    /\ ObjectIDFromHex(last.req.id).oid \in 1..(taskSeq + userSeq)

\* C23: the patch of UpdateUser changes the stored password hash only when
\* the request carries a non-empty password.  With an empty or omitted
\* password the hash stays, and every password authenticates after the patch
\* exactly if it did before; with a non-empty password the new password
\* authenticates afterwards and no other one does, the previous one included.
UpdatePasswordOnlyIfSent ==
    [][\A p \in Procs :
         (call[p] = Idle /\ call'[p].op = "UpdateUser"
             /\ call'[p].oid \in DOMAIN users)
            => LET oid == call'[p].oid
                   req == call'[p].req
                   before == users[oid].password
                   after == users'[oid].password
                   auth(pw) == AuthenticateUserReply(
                                  [o \in {oid} |-> users'[o]],
                                  [email |-> req.email, password |-> pw])
               IN  IF req.password = ""
                   THEN /\ after = before
                        /\ \A x \in AccountInputs :
                              auth(x.password).err = ""
                                 <=> CompareHashAndPassword(before, x.password) = ""
                   ELSE /\ auth(req.password).err = ""
                        /\ \A x \in AccountInputs :
                              x.password # req.password
                                 => auth(x.password).err # ""]_vars

\* the patch of an UpdateUser that carries a non-empty password has just
\* been applied to a stored user
UpdatePasswordOnlyIfSentReached ==
    \E p \in Procs :
        /\ call[p].op = "UpdateUser"
        /\ ~call[p].dirty
        /\ call[p].req.password = "pw2"
        /\ call[p].oid \in DOMAIN users
        /\ CompareHashAndPassword(users[call[p].oid].password, "pw2") = ""
        /\ CompareHashAndPassword(users[call[p].oid].password, "pw1") # ""

ListFiltered ==
    /\ (last.op = "ListTasks" /\ last.called /\ last.err = "") =>
          LET page == last.resp.tasks
          IN  /\ \A i \in DOMAIN page :
                    /\ page[i].user_id = last.req.user_id
                    /\ last.req.completed => page[i].completed
              /\ LET mine == Matching(tasks, [user_id |-> last.req.user_id])
                  IN  (/\ ~last.req.completed /\ last.clean
                       /\ last.req.page = 0
                       /\ last.req.limit \in {0} \cup
                              {l \in Limits : l >= Cardinality(mine)})
                         => {page[i].id : i \in DOMAIN page} =
                               {Hex(o) : o \in mine}
    /\ (last.op = "GetNotifications" /\ last.called /\ last.err = "") =>
          LET page == last.resp.notifications
          IN  \A i \in DOMAIN page :
                 /\ page[i].user_id = last.req.user_id
                 /\ last.req.unread_only => ~page[i].read

\* a listing with the completed flag unset has returned a completed and an
\* open task of the user
ListFilteredReached ==
    /\ last.op = "ListTasks" /\ last.called /\ last.err = ""
    /\ \E i, j \in DOMAIN last.resp.tasks :
          last.resp.tasks[i].completed /\ ~last.resp.tasks[j].completed
    /\ ~last.req.completed

\* C26: the page GetNotifications returns is in newest-first order, its
\* created_at never increasing along the sequence, and for a limit L > 0 and
\* a page P >= 0 it is the slice [P*L, P*L+L) of the requested user's
\* filtered notifications sorted by created_at, descending, in one of the
\* orders that sort allows.  (The offset is computed in int32: with L = P =
\* 65536 it is 0, and the newest notifications are returned where the slice
\* is empty.)
NewestFirstPage ==
    (/\ last.op = "GetNotifications" /\ last.called /\ last.err = ""
     /\ last.clean)
        => LET page == last.resp.notifications
               L == last.req.limit
               P == last.req.page
               mine == Matching(notifications, GetNotificationsFilter(last.req))
           IN  /\ \A i, j \in DOMAIN page :
                     i < j => ~StringLess(page[i].created_at, page[j].created_at)
               /\ (L > 0 /\ P >= 0) =>
                     \E all \in Descending(notifications, mine, "created_at") :
                        IF P >= (Len(all) + L - 1) \div L
                        THEN page = <<>>
                        ELSE [i \in DOMAIN page |-> page[i].id] =
                                [i \in 1..((IF Len(all) < P * L + L
                                            THEN Len(all) ELSE P * L + L) - P * L)
                                    |-> Hex(all[P * L + i])]

(* --------------------------- user statistics --------------------------- *)

\* a task with a due date, which is past once the clock has moved on, or
\* with none
UserStatsCreateTask(p) ==
    /\ svc = "analytics"
    /\ taskSeq < MaxCounted
    /\ \E u \in UserIds, d \in {RFC3339(0), <<>>} :
          CreateTask(p, [title |-> "buy milk", description |-> "2 litres",
                         user_id |-> u, due_date |-> d])
    /\ UNCHANGED http

\* one statistics call is in flight at a time
UserStatsGetUserStats(p) ==
    /\ svc = "analytics"
    /\ \A q \in Procs : call[q].op # "GetUserStats"
    /\ \E u \in UserIds :
          GetUserStats(p, [user_id |-> u, start_date |-> "", end_date |-> ""])
    /\ UNCHANGED http

\* GetUserStats called directly, next to the Task service's writes to the
\* collection it counts, while time passes
NextUserStats ==
    \/ Return
    \/ Tick
    \/ \E p \in Procs :
        \/ UserStatsCreateTask(p)
        \/ StatsUpdateTask(p)
        \/ UpdateTaskReadBack(p)
        \/ StatsDeleteTask(p)
        \/ UserStatsGetUserStats(p)
        \/ GetUserStatsCompleted(p)
        \/ GetUserStatsPending(p)
        \/ GetUserStatsOverdue(p)

SpecUserStats == InitStats /\ [][NextUserStats]_vars

\* C27: a GetUserStats call during which no task was written returns as
\* overdue the number of the user's tasks that are not completed and whose
\* due date is earlier than the time of the call; a task with an empty due
\* date is not counted.  (The store compares due_date with the formatted
\* time as strings, and the empty string is less than every time.)
OverdueCount ==
    (last.op = "GetUserStats" /\ last.called /\ last.err = "" /\ last.clean)
        => last.resp.stats.overdue_tasks =
              Cardinality({o \in DOMAIN tasks :
                              /\ tasks[o].user_id = last.req.user_id
                              /\ ~tasks[o].completed
                              /\ tasks[o].due_date # <<>>
                              /\ StringLess(tasks[o].due_date, RFC3339(clock))})

\* C28: the four counts of GetUserStats are separate queries.  A call during
\* which no task was written returns total = completed + pending and
\* overdue <= pending; a call that a task write came between can return
\* counts that do not add up.
StatsConsistent ==
    (last.op = "GetUserStats" /\ last.called /\ last.err = "" /\ last.clean)
        => LET stats == last.resp.stats
           IN  /\ stats.total_tasks = stats.completed_tasks + stats.pending_tasks
               /\ stats.overdue_tasks <= stats.pending_tasks

\* a call that a write came between returned a total that is not the sum of
\* its completed and pending counts
StatsConsistentReached ==
    /\ last.op = "GetUserStats" /\ last.called /\ last.err = "" /\ ~last.clean
    /\ last.resp.stats.total_tasks #
          last.resp.stats.completed_tasks + last.resp.stats.pending_tasks

\* C29: after any sequence of CreateUser, UpdateUser and DeleteUser, every
\* stored user authenticates with its current email and password, and the
\* call returns that user's id, also when another stored user has the same
\* email.  (AuthenticateUser takes the first user the store finds for the
\* email.)
EveryUserAuthenticates ==
    (last.op = "AuthenticateUser" /\ last.called)
        => \A o \in DOMAIN users :
              (/\ users[o].email = last.req.email
               /\ CompareHashAndPassword(users[o].password,
                                         last.req.password) = "")
                 => /\ last.err = ""
                    /\ last.resp.user.id = Hex(o)

\* C30: the patch of an UpdateTask on a stored task leaves the task's id,
\* user_id and created_at as they were and replaces title, description,
\* completed and due_date with the request's values, the empty ones of a
\* request that left them out included; no other step changes a stored
\* task, so that after two updates of one id whose steps interleave the task
\* holds the four fields of the update patched last, never a mix of the two.
\* A successful update returns the task of the id it was sent.
UpdateReplacesFields ==
    /\ []((last.op = "UpdateTask" /\ last.called /\ last.err = "")
             => last.resp.task.id = last.req.id)
    /\ [][LET patching == {p \in Procs : /\ call[p] = Idle
                                         /\ call'[p].op = "UpdateTask"}
          IN  /\ \A p \in patching :
                    LET oid == call'[p].oid
                        req == call'[p].req
                    IN  oid \in DOMAIN tasks =>
                           /\ DOMAIN tasks' = DOMAIN tasks
                           /\ tasks'[oid].user_id = tasks[oid].user_id
                           /\ tasks'[oid].created_at = tasks[oid].created_at
                           /\ tasks'[oid].title = req.title
                           /\ tasks'[oid].description = req.description
                           /\ tasks'[oid].completed = req.completed
                           /\ tasks'[oid].due_date = req.due_date
                           /\ \A o \in DOMAIN tasks \ {oid} :
                                 tasks'[o] = tasks[o]
              /\ patching = {} =>
                    \A o \in DOMAIN tasks \cap DOMAIN tasks' :
                       tasks'[o] = tasks[o]]_vars

\* two updates of one stored task are in flight, the first with the
\* scenario's fields and the second, patched last, with every field left
\* out: the task holds the second's empty fields, and its owner
UpdateReplacesFieldsReached ==
    /\ call["c1"].op = "UpdateTask" /\ call["c2"].op = "UpdateTask"
    /\ call["c1"].oid = call["c2"].oid
    /\ call["c1"].oid \in DOMAIN tasks
    /\ call["c1"].dirty /\ ~call["c2"].dirty
    /\ call["c1"].req.title = "buy milk" /\ call["c2"].req.title = ""
    /\ LET t == tasks[call["c1"].oid]
       IN  /\ t.title = "" /\ t.description = "" /\ t.due_date = <<>>
           /\ ~t.completed /\ t.user_id = "u1"

====
